---- MODULE Spec2Model ----
(***************************************************************************)
(* The grid search of qless-solver (cli/qless_solver/grid_solver.py):      *)
(* Grid, get_valid_words, sort_words_by_potential, solve_qless_grid and    *)
(* find_grid_solutions.backtrack, run as an explicit-stack state machine.  *)
(* Words and letter strings are sequences of one-character strings.        *)
(***************************************************************************)
EXTENDS Integers, Sequences, FiniteSets, TLC

\* Longest letters string handed to solve_qless_grid.
MaxLetters == 3

\* Largest min_word_length handed to solve_qless_grid.
MaxMinLength == 3

\* Most words a caller places on its own Grid object.
MaxPlaced == 2

\* Largest coordinate of a position a caller places a word at (from 0).
MaxCoordinate == 1

\* Characters of the input strings: two lowercase letters and one uppercase.
InputChars == {"a", "t", "T"}

\* str.lower() on one character.
lower_char(c) == IF c = "T" THEN "t" ELSE c

\* str.lower() on a string.
lower(s) == [i \in 1..Len(s) |-> lower_char(s[i])]

Chars == InputChars \cup {lower_char(c) : c \in InputChars}

\* Code point of a character (Python compares strings by code point).
ord(c) == CASE c = "T" -> 84 [] c = "a" -> 97 [] c = "t" -> 116

\* Python's str < str.
StrLess(w, v) ==
    \E k \in 1..(Len(v)) :
        /\ \A j \in 1..(k - 1) : j <= Len(w) /\ w[j] = v[j]
        /\ \/ k = Len(w) + 1
           \/ k <= Len(w) /\ ord(w[k]) < ord(v[k])

\* Every sequence that lists the finite set S once each (list(a_set): the
\* iteration order of a Python set is not specified).
ListsOf(S) ==
    {s \in [1..Cardinality(S) -> S] : \A i, j \in DOMAIN s : i # j => s[i] # s[j]}

(***************************************************************************)
(* Dictionary: the word set behind dictionary.is_valid_word(word).          *)
(***************************************************************************)
\* The words of the dictionary object (MockDictionary._words in the tests).
DictWords ==
    { <<"a">>, <<"a", "t">>, <<"t", "a">>, <<"t", "a", "t">> }

\* Dictionary.is_valid_word as the grid solver calls it (one argument).
is_valid_word(word) == word \in DictWords

(***************************************************************************)
(* collections.Counter over the characters of the model.                   *)
(***************************************************************************)
Counter(s) == [c \in Chars |-> Cardinality({i \in 1..Len(s) : s[i] = c})]

RECURSIVE SumOver(_, _)
SumOver(cnt, S) ==
    IF S = {} THEN 0
    ELSE LET c == CHOOSE x \in S : TRUE IN cnt[c] + SumOver(cnt, S \ {c})

\* sum(counter.values())
SumValues(cnt) == SumOver(cnt, DOMAIN cnt)

\* Counter.__sub__: counts subtracted, only positive counts kept.
CounterSub(a, b) == [c \in Chars |-> IF a[c] - b[c] > 0 THEN a[c] - b[c] ELSE 0]

(***************************************************************************)
(* Grid                                                                    *)
(***************************************************************************)
GridPosition(x, y, direction) == [x |-> x, y |-> y, direction |-> direction]

PlacedWord(word, position) == [word |-> word, position |-> position]

EmptyCells == [p \in {} |-> "a"]

\* Grid(): cells = {}, words = [].
EmptyGrid == [cells |-> EmptyCells, words |-> <<>>]

\* The cell index-th character of a word at a position is written to.
CellOf(position, i) ==
    IF position.direction = "across"
    THEN <<position.x + (i - 1), position.y>>
    ELSE <<position.x, position.y + (i - 1)>>

\* The assignments self.cells[...] = char of one word, onto a cell map.
WriteWord(cells, word, position) ==
    LET target == {CellOf(position, i) : i \in 1..Len(word)}
    IN  [p \in (DOMAIN cells) \cup target |->
            IF p \in target
            THEN word[CHOOSE i \in 1..Len(word) : CellOf(position, i) = p]
            ELSE cells[p]]

\* Grid.place_word: writes every letter, appends the PlacedWord, returns True.
place_word(grid, word, position) ==
    [cells |-> WriteWord(grid.cells, word, position),
     words |-> Append(grid.words, PlacedWord(word, position))]

\* Grid.validate_placement: the placeholder, which always returns True.
validate_placement(grid, word, position) == TRUE

\* The set built by Grid.get_anchor_points on a grid with cells.
AnchorSet(cells) ==
    UNION { { GridPosition(p[1], p[2] + 1, "across"),
              GridPosition(p[1], p[2] - 1, "across"),
              GridPosition(p[1] + 1, p[2], "down"),
              GridPosition(p[1] - 1, p[2], "down"),
              GridPosition(p[1], p[2], "across"),
              GridPosition(p[1], p[2], "down") } : p \in DOMAIN cells }

AnchorBefore(a, b) ==
    \/ a.x < b.x
    \/ a.x = b.x /\ a.y < b.y
    \/ a.x = b.x /\ a.y = b.y /\ a.direction = "across" /\ b.direction = "down"

\* list(anchors): one of two iteration orders of the set, fixed for a process
\* by its hash seed.
AnchorList(S, reversed) ==
    [i \in 1..Cardinality(S) |->
        CHOOSE a \in S :
            Cardinality({b \in S : IF reversed THEN AnchorBefore(a, b)
                                                ELSE AnchorBefore(b, a)}) = i - 1]

OriginAnchors == <<GridPosition(0, 0, "across"), GridPosition(0, 0, "down")>>

\* Grid.get_anchor_points, when the set of GridPosition objects can be built.
get_anchor_points(grid, reversed) ==
    IF DOMAIN grid.cells = {} THEN OriginAnchors
    ELSE AnchorList(AnchorSet(grid.cells), reversed)

(***************************************************************************)
(* Word source                                                             *)
(***************************************************************************)
\* itertools.permutations(letter_list, i), each joined to a word.
PermutationWords(letter_list, i) ==
    LET n == Len(letter_list)
    IN  { [k \in 1..i |-> letter_list[p[k]]] :
            p \in {q \in [1..i -> 1..n] : \A a, b \in 1..i : a # b => q[a] # q[b]} }

\* get_valid_words with the lengths starting at 1 whatever min_length is.
get_valid_words_ignoring_min(letters, min_length) ==
    LET letter_list == lower(letters)
    IN  UNION { {word \in PermutationWords(letter_list, i) : is_valid_word(word)} :
                  i \in 1..Len(letter_list) }

\* get_valid_words with range(min_length, len(letter_list)): the full length
\* is never tried.
get_valid_words_short_range(letters, min_length) ==
    LET letter_list == lower(letters)
    IN  UNION { {word \in PermutationWords(letter_list, i) : is_valid_word(word)} :
                  i \in min_length..(Len(letter_list) - 1) }

\* get_valid_words of grid_solver.py: the set possible_words.
get_valid_words(letters, min_length) ==
    LET letter_list == lower(letters)
    IN  UNION { {word \in PermutationWords(letter_list, i) : is_valid_word(word)} :
                  i \in min_length..Len(letter_list) }

\* The sort key (-len(x), x) compared as Python compares tuples.
KeyLess(w, v) == Len(w) > Len(v) \/ (Len(w) = Len(v) /\ StrLess(w, v))

\* sorted(words, key=...): the word at each place of the result is the one
\* with that many words before it, by key and, for equal keys, by position
\* (the sort is stable).
SortedByKey(words) ==
    [i \in 1..Len(words) |->
        words[CHOOSE k \in 1..Len(words) :
                 Cardinality({j \in 1..Len(words) :
                                \/ KeyLess(words[j], words[k])
                                \/ words[j] = words[k] /\ j < k}) = i - 1]]

\* The sort with reverse=True: shorter words first.
sort_words_reversed(words) ==
    LET sorted == SortedByKey(words)
    IN  [i \in 1..Len(sorted) |-> sorted[Len(sorted) + 1 - i]]

\* sort_words_by_potential: sorted(words, key=lambda x: (-len(x), x)).
sort_words_by_potential(words) == SortedByKey(words)

(***************************************************************************)
(* State                                                                   *)
(***************************************************************************)
VARIABLES
    letters,                    \* argument of solve_qless_grid
    min_word_length,            \* argument of solve_qless_grid
    hashable,                   \* whether the pydantic build makes GridPosition hashable
    anchors_reversed,           \* which iteration order list(anchors) has in this process
    pc,                         \* "start", "backtrack", "done" (returned), "raised";
                                \* "grid" when the caller works on a Grid directly
    sorted_candidate_words,     \* find_grid_solutions: sorted_candidate_words
    original_available_letters, \* find_grid_solutions: original_available_letters
    stack,                      \* the activations of backtrack, innermost last
    solutions,                  \* find_grid_solutions: solutions
    previous,                   \* what an earlier call with the same arguments returned
    caller_grid,                \* a Grid object the caller holds and calls methods of
    all_words,                  \* solver.solve_qless: argument all_words
    solver_result,              \* solver.solve_qless: the list it returns
    target_letters_str,         \* validate_qless_arrangement: argument
    layout_grid,                \* validate_qless_arrangement: argument
    validation,                 \* validate_qless_arrangement: what the call produced
    entry_point,                \* which handler a request is for: cli.main or a web endpoint
    args_letters,               \* the letters string as the user sent it
    generate,                   \* cli: args.generate
    solver_imported,            \* web: whether the import of lines 16-18 succeeded
    solver_calls,               \* the arguments the handler called the solver with
    response,                   \* what the handler answered
    grid_call,                  \* the last method the caller called on its Grid
    dictionary_cache,           \* dictionary.py: the module global _DICTIONARY
    dictionary_call             \* the last function of dictionary.py or solver.py called

\* The state of the command line and web front ends.
frontend == <<entry_point, args_letters, generate, solver_imported, solver_calls, response>>

\* The state of solver.py and of the front ends, which the grid search never
\* touches.
outside_grid == <<all_words, solver_result, target_letters_str, layout_grid, validation,
                  frontend, grid_call, dictionary_cache, dictionary_call>>

vars == <<letters, min_word_length, hashable, anchors_reversed, pc,
          sorted_candidate_words, original_available_letters, stack, solutions,
          previous, caller_grid, outside_grid>>

\* The letters strings the model calls solve_qless_grid with.
InputStrings == UNION {[1..n -> InputChars] : n \in 0..MaxLetters}

NoPrevious == [ran |-> FALSE, anchors_reversed |-> FALSE, solutions |-> <<>>]

\* Nothing of solver.py has been called.
NoValidation == [raised |-> FALSE, valid |-> TRUE, errors |-> <<>>]

\* No request has been made.
NoResponse == [code |-> 0, message |-> ""]

\* The caller has called no method of its Grid.
NoGridCall ==
    [method |-> "none", argument |-> <<>>, before |-> EmptyGrid, raised |-> FALSE,
     returned |-> <<>>]

\* _DICTIONARY holds the words of the dictionary file; no function that the
\* dictionary specification follows has been called.
NoDictionaryCall == [function |-> "none", arguments |-> <<>>, returned |-> <<>>]

DictionaryIdle ==
    /\ dictionary_cache = [loaded |-> TRUE, words |-> DictWords]
    /\ dictionary_call = NoDictionaryCall

FrontendIdle ==
    /\ DictionaryIdle
    /\ grid_call = NoGridCall
    /\ entry_point = "none"
    /\ args_letters = <<>>
    /\ generate = FALSE
    /\ solver_imported = TRUE
    /\ solver_calls = <<>>
    /\ response = NoResponse

OutsideGridIdle ==
    /\ FrontendIdle
    /\ all_words = FALSE
    /\ solver_result = [returned |-> <<>>, searched |-> FALSE]
    /\ target_letters_str = <<>>
    /\ layout_grid = <<>>
    /\ validation = NoValidation

\* Either a call of solve_qless_grid is about to be made, or the caller has
\* constructed a Grid() of its own.
Init ==
    /\ \/ /\ pc = "start"
          /\ letters \in InputStrings
          /\ min_word_length \in 1..MaxMinLength
          /\ anchors_reversed \in BOOLEAN
       \/ /\ pc = "grid"
          /\ letters = <<>>
          /\ min_word_length = 1
          /\ anchors_reversed = FALSE
    /\ hashable \in BOOLEAN
    /\ caller_grid = EmptyGrid
    /\ sorted_candidate_words = <<>>
    /\ original_available_letters = Counter(<<>>)
    /\ stack = <<>>
    /\ solutions = <<>>
    /\ previous = NoPrevious
    /\ OutsideGridIdle

\* One activation of backtrack: its three arguments, its local anchor_points
\* and the positions of its two for loops (1-based).
Activation(grid, remaining, used) ==
    [current_grid |-> grid,
     current_remaining_letters |-> remaining,
     used_words_set |-> used,
     at |-> "entry",
     anchor_points |-> <<>>,
     point |-> 1,
     word |-> 1]

Top == stack[Len(stack)]

ReplaceTop(a) == [stack EXCEPT ![Len(stack)] = a]

\* backtrack returns: its activation is dropped; the outermost return is the
\* return of find_grid_solutions and of solve_qless_grid.
Return ==
    /\ stack' = SubSeq(stack, 1, Len(stack) - 1)
    /\ pc' = IF Len(stack) = 1 THEN "done" ELSE "backtrack"

(***************************************************************************)
(* solve_qless_grid, lines 103-119, with find_grid_solutions lines 128-131 *)
(* and 184-185: candidate words, their sort, and the first call of         *)
(* backtrack.                                                              *)
(***************************************************************************)
SolveQlessGrid ==
    /\ pc = "start"
    /\ \E candidate_words \in ListsOf(get_valid_words(letters, min_word_length)) :
          sorted_candidate_words' = sort_words_by_potential(candidate_words)
    /\ original_available_letters' = Counter(lower(letters))
    /\ stack' = <<Activation(EmptyGrid, Counter(lower(letters)), {})>>
    /\ solutions' = <<>>
    /\ pc' = "backtrack"
    /\ UNCHANGED <<letters, min_word_length, hashable, anchors_reversed, previous, caller_grid>>
    /\ UNCHANGED outside_grid

\* The base case with <= in place of <.
IsBaseCaseInclusive(remaining) == SumValues(remaining) <= min_word_length

\* Line 139: the base case of the recursion.
IsBaseCase(remaining) == SumValues(remaining) < min_word_length

\* Line 140: whether the base case records the grid.
HasPlacedWord(grid) == grid.words # <<>>

\* Lines 141-143: the GridSolution appended.
GridSolution(grid, remaining) ==
    [grid |-> grid,
     used_letters |-> CounterSub(original_available_letters, remaining)]

\* Lines 139-144.
BaseCase ==
    /\ pc = "backtrack"
    /\ Top.at = "entry"
    /\ IsBaseCase(Top.current_remaining_letters)
    /\ solutions' =
          IF HasPlacedWord(Top.current_grid)
          THEN Append(solutions,
                      GridSolution(Top.current_grid, Top.current_remaining_letters))
          ELSE solutions
    /\ Return
    /\ UNCHANGED <<letters, min_word_length, hashable, anchors_reversed,
                   sorted_candidate_words, original_available_letters, previous, caller_grid>>
    /\ UNCHANGED outside_grid

\* Whether get_anchor_points can add GridPosition objects to its set.
CanBuildAnchorSet(grid) == DOMAIN grid.cells = {} \/ hashable

\* Lines 146-148: the anchor points of the activation.
AnchorPoints ==
    /\ pc = "backtrack"
    /\ Top.at = "entry"
    /\ ~IsBaseCase(Top.current_remaining_letters)
    /\ CanBuildAnchorSet(Top.current_grid)
    /\ LET got == get_anchor_points(Top.current_grid, anchors_reversed)
           anchor_points ==
               IF Top.current_grid.words = <<>> /\ got = <<>>
               THEN OriginAnchors ELSE got
       IN  stack' = ReplaceTop([Top EXCEPT !.at = "loop",
                                           !.anchor_points = anchor_points])
    /\ UNCHANGED <<letters, min_word_length, hashable, anchors_reversed, pc,
                   sorted_candidate_words, original_available_letters, solutions,
                   previous, caller_grid>>
    /\ UNCHANGED outside_grid

\* Line 146 when anchors.add(GridPosition(...)) raises TypeError (lines 45-51):
\* the exception leaves backtrack, find_grid_solutions and solve_qless_grid.
AnchorPointsRaise ==
    /\ pc = "backtrack"
    /\ Top.at = "entry"
    /\ ~IsBaseCase(Top.current_remaining_letters)
    /\ ~CanBuildAnchorSet(Top.current_grid)
    /\ pc' = "raised"
    /\ stack' = <<>>
    /\ UNCHANGED <<letters, min_word_length, hashable, anchors_reversed,
                   sorted_candidate_words, original_available_letters, solutions,
                   previous, caller_grid>>
    /\ UNCHANGED outside_grid

\* A test that lets every word pass.
can_form_word_always(word, remaining) == TRUE

\* Lines 156-164: the remaining letters supply every letter of the word.
can_form_word(word, remaining) ==
    LET word_counter == Counter(lower(word))
    IN  \A char \in Chars : word_counter[char] > 0 => remaining[char] >= word_counter[char]

\* Taking one of each distinct letter of the word, whatever its count.
ConsumeOncePerLetter(remaining, word) ==
    LET word_counter == Counter(lower(word))
    IN  [char \in Chars |-> remaining[char] - (IF word_counter[char] > 0 THEN 1 ELSE 0)]

\* A recursive call that is handed the caller's counts, nothing taken.
ConsumeNothing(remaining, word) == remaining

\* Lines 175-177: the letters of the word taken from the remaining letters.
Consume(remaining, word) ==
    LET word_counter == Counter(lower(word))
    IN  [char \in Chars |-> remaining[char] - word_counter[char]]

InLoop ==
    /\ pc = "backtrack"
    /\ Top.at = "loop"

\* Lines 153-154 and 158-164: the two continue statements.
SkipWord ==
    /\ InLoop
    /\ Top.point <= Len(Top.anchor_points)
    /\ Top.word <= Len(sorted_candidate_words)
    /\ LET word_to_try == sorted_candidate_words[Top.word]
       IN  \/ word_to_try \in Top.used_words_set
           \/ ~can_form_word(word_to_try, Top.current_remaining_letters)
    /\ stack' = ReplaceTop([Top EXCEPT !.word = @ + 1])
    /\ UNCHANGED <<letters, min_word_length, hashable, anchors_reversed, pc,
                   sorted_candidate_words, original_available_letters, solutions,
                   previous, caller_grid>>
    /\ UNCHANGED outside_grid

\* What a copy hands back: the value, and whether it is the object copied
\* (whose later mutation the holder of the original would see) or a new one.
\* A copy that hands back the object itself.
copy_same_object(obj) == [same_object |-> TRUE, value |-> obj]

\* current_grid.copy(deep=True), line 166
copy_deep(obj) == [same_object |-> FALSE, value |-> obj]

\* current_remaining_letters.copy(), line 175
Counter_copy(obj) == [same_object |-> FALSE, value |-> obj]

\* used_words_set.copy(), line 179
set_copy(obj) == [same_object |-> FALSE, value |-> obj]

\* Lines 166-182: the word is placed on a copy of the grid and, the placement
\* validated, the letters are taken from a copy of the counter, the word is
\* added to a copy of the set, and backtrack is called on the copies.  The
\* caller's activation keeps its own objects: it sees place_word, -= and add
\* only where a copy is the object itself.
TryWord ==
    /\ InLoop
    /\ Top.point <= Len(Top.anchor_points)
    /\ Top.word <= Len(sorted_candidate_words)
    /\ LET word_to_try == sorted_candidate_words[Top.word]
           point == Top.anchor_points[Top.point]
           grid_copy == copy_deep(Top.current_grid)
           potential_next_grid == place_word(grid_copy.value, word_to_try, point)
           valid == validate_placement(potential_next_grid, word_to_try, point)
           letters_copy == Counter_copy(Top.current_remaining_letters)
           next_remaining_letters == Consume(letters_copy.value, word_to_try)
           used_copy == set_copy(Top.used_words_set)
           next_used_words_set == used_copy.value \cup {word_to_try}
           caller == [Top EXCEPT
                        !.word = @ + 1,
                        !.current_grid =
                            IF grid_copy.same_object THEN potential_next_grid ELSE @,
                        !.current_remaining_letters =
                            IF valid /\ letters_copy.same_object
                            THEN next_remaining_letters ELSE @,
                        !.used_words_set =
                            IF valid /\ used_copy.same_object
                            THEN next_used_words_set ELSE @]
       IN  /\ word_to_try \notin Top.used_words_set
           /\ can_form_word(word_to_try, Top.current_remaining_letters)
           /\ stack' =
                IF valid
                THEN Append(ReplaceTop(caller),
                            Activation(potential_next_grid, next_remaining_letters,
                                       next_used_words_set))
                ELSE ReplaceTop(caller)
    /\ UNCHANGED <<letters, min_word_length, hashable, anchors_reversed, pc,
                   sorted_candidate_words, original_available_letters, solutions,
                   previous, caller_grid>>
    /\ UNCHANGED outside_grid

\* Line 151-152: the inner loop is exhausted, the outer loop takes the next point.
NextPoint ==
    /\ InLoop
    /\ Top.point <= Len(Top.anchor_points)
    /\ Top.word > Len(sorted_candidate_words)
    /\ stack' = ReplaceTop([Top EXCEPT !.point = @ + 1, !.word = 1])
    /\ UNCHANGED <<letters, min_word_length, hashable, anchors_reversed, pc,
                   sorted_candidate_words, original_available_letters, solutions,
                   previous, caller_grid>>
    /\ UNCHANGED outside_grid

\* Line 151: the outer loop is exhausted, backtrack returns (line 187 for the
\* outermost activation).
LoopsDone ==
    /\ InLoop
    /\ Top.point > Len(Top.anchor_points)
    /\ Return
    /\ UNCHANGED <<letters, min_word_length, hashable, anchors_reversed,
                   sorted_candidate_words, original_available_letters, solutions,
                   previous, caller_grid>>
    /\ UNCHANGED outside_grid

\* A second call of solve_qless_grid with the same arguments, in the same or in
\* another process (the first result is kept for comparison).
CallAgain ==
    /\ pc = "done"
    /\ ~previous.ran
    /\ previous' = [ran |-> TRUE, anchors_reversed |-> anchors_reversed,
                    solutions |-> solutions]
    /\ anchors_reversed' \in BOOLEAN
    /\ pc' = "start"
    /\ sorted_candidate_words' = <<>>
    /\ original_available_letters' = Counter(<<>>)
    /\ stack' = <<>>
    /\ solutions' = <<>>
    /\ UNCHANGED <<letters, min_word_length, hashable, caller_grid>>
    /\ UNCHANGED outside_grid

\* The positions a caller places words at.
Positions ==
    {GridPosition(x, y, d) : x \in 0..MaxCoordinate, y \in 0..MaxCoordinate,
                             d \in {"across", "down"}}

\* Grid.place_word(word, position), called on the caller's Grid.
GridPlaceWord ==
    /\ pc = "grid"
    /\ Len(caller_grid.words) < MaxPlaced
    /\ \E word \in DictWords, position \in Positions :
          caller_grid' = place_word(caller_grid, word, position)
    /\ UNCHANGED <<letters, min_word_length, hashable, anchors_reversed, pc,
                   sorted_candidate_words, original_available_letters, stack,
                   solutions, previous>>
    /\ UNCHANGED outside_grid

Next ==
    \/ SolveQlessGrid
    \/ BaseCase
    \/ AnchorPoints
    \/ AnchorPointsRaise
    \/ SkipWord
    \/ TryWord
    \/ NextPoint
    \/ LoopsDone
    \/ GridPlaceWord

Spec == Init /\ [][Next]_vars

\* The program calling solve_qless_grid twice with the same arguments.
NextRepeat == Next \/ CallAgain

SpecRepeat == Init /\ [][NextRepeat]_vars

(***************************************************************************)
(* Vocabulary of the properties                                            *)
(***************************************************************************)
SeqToSet(s) == {s[i] : i \in 1..Len(s)}

\* The grids the search holds: one per activation, one per recorded solution.
SearchGrids == {stack[i].current_grid : i \in 1..Len(stack)}

SolutionGrids == {solutions[i].grid : i \in 1..Len(solutions)}

\* The letters of all the placed words of a grid, counted.
RECURSIVE LettersOfWords(_)
LettersOfWords(words) ==
    IF words = <<>> THEN Counter(<<>>)
    ELSE LET rest == LettersOfWords(Tail(words))
             here == Counter(Head(words).word)
         IN  [c \in Chars |-> here[c] + rest[c]]

\* The word can be formed from the letters (a sub-multiset, ignoring case).
Formable(w, s) ==
    \A c \in Chars :
        Cardinality({i \in 1..Len(w) : lower_char(w[i]) = c})
            <= Cardinality({i \in 1..Len(s) : lower_char(s[i]) = c})

\* A string with the counted letters.
RECURSIVE LettersOfCounts(_, _)
LettersOfCounts(cnt, S) ==
    IF S = {} THEN <<>>
    ELSE LET c == CHOOSE x \in S : TRUE
         IN  [i \in 1..cnt[c] |-> c] \o LettersOfCounts(cnt, S \ {c})

CountedLetters(cnt) == LettersOfCounts(cnt, DOMAIN cnt)

CellsOfWord(pw) == {CellOf(pw.position, i) : i \in 1..Len(pw.word)}

\* The letters read from cell p onwards in a direction, up to the first gap.
RECURSIVE RunFrom(_, _, _)
RunFrom(cells, p, direction) ==
    IF p \notin DOMAIN cells THEN <<>>
    ELSE <<cells[p]>> \o
         RunFrom(cells,
                 IF direction = "across" THEN <<p[1] + 1, p[2]>> ELSE <<p[1], p[2] + 1>>,
                 direction)

\* The maximal contiguous runs of letters of a cell map, both directions.
Runs(cells) ==
    {RunFrom(cells, p, "across") : p \in {q \in DOMAIN cells : <<q[1] - 1, q[2]>> \notin DOMAIN cells}}
    \cup
    {RunFrom(cells, p, "down") : p \in {q \in DOMAIN cells : <<q[1], q[2] - 1>> \notin DOMAIN cells}}

Returned == pc = "done"

(***************************************************************************)
(* Properties                                                              *)
(***************************************************************************)

\* C1: in every solution solve_qless_grid returns, the letters of all placed
\* words, counted, are exactly the letters of the input: none unused, none
\* used more often than it occurs.
C1_LetterConservation ==
    Returned =>
        \A g \in SolutionGrids : LettersOfWords(g.words) = Counter(lower(letters))

\* C2: a placement onto a cell that holds a different letter is rejected, so in
\* every grid of the search and of the solutions each cell of each placed word
\* carries the letter that word implies there.
C2_NoConflictingOverlap ==
    \A g \in SearchGrids \cup SolutionGrids \cup {caller_grid} :
        \A k \in 1..Len(g.words) :
            \A i \in 1..Len(g.words[k].word) :
                g.cells[CellOf(g.words[k].position, i)] = g.words[k].word[i]

C5_WordsLongEnoughAndValid ==
    \A g \in SolutionGrids :
        \A k \in 1..Len(g.words) :
            /\ Len(g.words[k].word) >= min_word_length
            /\ g.words[k].word \in DictWords

\* A returned solution of two words.
C5_Witness ==
    /\ Returned
    /\ \E g \in SolutionGrids : Len(g.words) >= 2

\* The activation about to run has fewer than min_word_length letters left.
AtTerminal ==
    /\ pc = "backtrack"
    /\ Top.at = "entry"
    /\ SumValues(Top.current_remaining_letters) < min_word_length

\* No dictionary word of at least min_word_length letters can be formed.
NoWordFormable ==
    \A w \in DictWords : ~(Len(w) >= min_word_length /\ Formable(w, letters))

\* C6: a step of the search appends a solution (the grid of the activation)
\* exactly when that activation has fewer than min_word_length letters left and
\* at least one placed word; with no placed word it appends nothing and raises
\* nothing; a call for letters that form no word returns the empty list.
C6_RecordExactlyAtTerminal ==
    /\ [][pc = "backtrack" =>
            IF AtTerminal /\ Top.current_grid.words # <<>>
            THEN /\ Len(solutions') = Len(solutions) + 1
                 /\ SubSeq(solutions', 1, Len(solutions)) = solutions
                 /\ solutions'[Len(solutions')].grid = Top.current_grid
                 /\ pc' # "raised"
            ELSE /\ solutions' = solutions
                 /\ AtTerminal => pc' # "raised"]_vars
    /\ [](NoWordFormable /\ pc \in {"done", "raised"}
            => Returned /\ solutions = <<>>)

\* A call that recorded a solution has returned, and (other arguments) a call
\* for letters that form no word has returned.
C6_Witness ==
    /\ Returned
    /\ \/ solutions # <<>>
       \/ NoWordFormable /\ Len(letters) >= min_word_length

\* C7: when a dictionary word w (of at least min_word_length letters, as every
\* placed word) can be formed from the letters and fewer than min_word_length
\* letters are left beside it, the call returns, and one of the solutions is
\* the single placed word w with used_letters the letters of w.
C7_SingleWordSolution ==
    pc \in {"done", "raised"} =>
        \A w \in DictWords :
            (/\ Len(w) >= min_word_length
             /\ Formable(w, letters)
             /\ Len(letters) - Len(w) < min_word_length)
            => /\ Returned
               /\ \E i \in 1..Len(solutions) :
                    /\ Len(solutions[i].grid.words) = 1
                    /\ solutions[i].grid.words[1].word = w
                    /\ solutions[i].used_letters = Counter(w)

HasPriority(w, v) == Len(w) > Len(v) \/ (Len(w) = Len(v) /\ StrLess(w, v))

RECURSIVE PriorityList(_)
PriorityList(S) ==
    IF S = {} THEN <<>>
    ELSE LET w == CHOOSE x \in S : \A y \in S \ {x} : HasPriority(x, y)
         IN  <<w>> \o PriorityList(S \ {w})

RECURSIVE DepthFirst(_, _, _, _), DepthFirstFrom(_, _, _, _, _, _, _)
DepthFirst(words, grid, remaining, used) ==
    IF SumValues(remaining) < min_word_length
    THEN IF grid.words # <<>>
         THEN <<[grid |-> grid,
                 used_letters |-> CounterSub(Counter(lower(letters)), remaining)]>>
         ELSE <<>>
    ELSE DepthFirstFrom(words, grid, remaining, used,
                        get_anchor_points(grid, anchors_reversed), 1, 1)

DepthFirstFrom(words, grid, remaining, used, anchors, p, w) ==
    IF p > Len(anchors) THEN <<>>
    ELSE IF w > Len(words)
    THEN DepthFirstFrom(words, grid, remaining, used, anchors, p + 1, 1)
    ELSE (IF words[w] \notin used /\ Formable(words[w], CountedLetters(remaining))
          THEN DepthFirst(words,
                          place_word(grid, words[w], anchors[p]),
                          [c \in Chars |-> remaining[c] - Counter(words[w])[c]],
                          used \cup {words[w]})
          ELSE <<>>)
         \o DepthFirstFrom(words, grid, remaining, used, anchors, p, w + 1)

\* C9: the returned list is the list of solutions in depth-first discovery
\* order, anchors outermost, words innermost, longer words first and equal
\* lengths in lexicographic order; nothing re-sorts it.
C9_DepthFirstOrder ==
    Returned =>
        solutions =
            DepthFirst(PriorityList({w \in DictWords :
                                        Len(w) >= min_word_length /\ Formable(w, letters)}),
                       EmptyGrid, Counter(lower(letters)), {})

\* A call has returned at least three solutions, not all starting with words
\* of one length.
C9_Witness ==
    /\ Returned
    /\ Len(solutions) >= 3
    /\ \E i, j \in 1..Len(solutions) :
          Len(solutions[i].grid.words[1].word) # Len(solutions[j].grid.words[1].word)

\* C10: get_valid_words returns, each once, exactly the dictionary words of at
\* least min_length letters that the letters (case ignored) can form.
C10_ValidWordsExact ==
    pc # "start" =>
        /\ SeqToSet(sorted_candidate_words) =
              {w \in DictWords : Len(w) >= min_word_length /\ Formable(w, letters)}
        /\ Cardinality(SeqToSet(sorted_candidate_words)) = Len(sorted_candidate_words)

\* get_valid_words has returned some dictionary words and left out others: one
\* too short and one the letters cannot form.
C10_Witness ==
    /\ pc # "start"
    /\ sorted_candidate_words # <<>>
    /\ \E w \in DictWords : Len(w) < min_word_length /\ Formable(w, letters)
    /\ \E w \in DictWords : Len(w) >= min_word_length /\ ~Formable(w, letters)

(***************************************************************************)
(* dictionary.py: the module-level functions over the cached word set.     *)
(***************************************************************************)
\* load_dictionary(): the cached set _DICTIONARY (lower-case words).
load_dictionary == DictWords

\* dictionary.is_valid_word(word, min_length).
dictionary_is_valid_word(word, min_length) ==
    IF Len(word) < min_length THEN FALSE
    ELSE lower(word) \in load_dictionary

\* A test that asks only whether each letter of the word is available at all.
dictionary_can_form_word_by_presence(word, available_letters) ==
    LET word_counter == Counter(lower(word))
    IN  \A letter \in Chars : word_counter[letter] > 0 => available_letters[letter] > 0

\* dictionary.can_form_word(word, available_letters).
dictionary_can_form_word(word, available_letters) ==
    LET word_counter == Counter(lower(word))
    IN  \A letter \in Chars :
            word_counter[letter] > 0 => ~(available_letters[letter] < word_counter[letter])

\* dictionary.get_valid_words(letters, min_length): a set.
dictionary_get_valid_words(word_letters, min_length) ==
    LET available_letters == Counter(lower(word_letters))
    IN  {word \in load_dictionary :
            Len(word) >= min_length /\ dictionary_can_form_word(word, available_letters)}

(***************************************************************************)
(* solver.py: solve_qless and find_complete_solutions.  The helper         *)
(* backtrack works in place on remaining_letters and current_solution; the *)
(* operators thread those two objects and the solutions list through the   *)
(* calls, so what a call leaves behind is what the next iteration sees.    *)
(***************************************************************************)
Solution(words, used_letters) == [words |-> words, used_letters |-> used_letters]

\* Line 88 with a test that also accepts one letter left over.
IsCompleteOrOneLeft(remaining_letters) == SumValues(remaining_letters) <= 1

\* Line 88: no letters remain.
IsComplete(remaining_letters) == SumValues(remaining_letters) = 0

\* Lines 102-105: the word can be formed with the remaining letters.
FitsRemaining(word, remaining_letters) ==
    LET word_counter == Counter(word)
    IN  \A letter \in Chars :
            word_counter[letter] > 0 => word_counter[letter] <= remaining_letters[letter]

\* current_solution.copy(), line 91: the value, and whether it is the list
\* copied or a new one.
list_copy(obj) == [same_object |-> FALSE, value |-> obj]

\* A write to the list current_solution: every recorded solution that holds
\* that list itself (st.aliased) shows it.
WriteCurrentSolution(st, new) ==
    [st EXCEPT !.current_solution = new,
               !.solutions = [k \in 1..Len(st.solutions) |->
                                IF k \in st.aliased
                                THEN Solution(new, st.solutions[k].used_letters)
                                ELSE st.solutions[k]]]

\* Lines 106-111: the word is appended to current_solution and its letters
\* are taken from remaining_letters, both in place.
UseWord(st, word) ==
    LET word_counter == Counter(word)
    IN  [WriteCurrentSolution(st, Append(st.current_solution, word)) EXCEPT
            !.remaining_letters = [c \in Chars |-> @[c] - word_counter[c]]]

\* An undo that pops the word and leaves the letters taken.
UndoWordKeepingLetters(st, word) ==
    WriteCurrentSolution(st, SubSeq(st.current_solution, 1, Len(st.current_solution) - 1))

\* Lines 116-119: current_solution.pop() and the letters given back.
UndoWord(st, word) ==
    LET word_counter == Counter(word)
    IN  [WriteCurrentSolution(st, SubSeq(st.current_solution, 1,
                                         Len(st.current_solution) - 1)) EXCEPT
            !.remaining_letters = [c \in Chars |-> @[c] + word_counter[c]]]

RECURSIVE solver_backtrack(_, _, _), solver_backtrack_loop(_, _, _, _)
RECURSIVE solver_backtrack_loop_in_order(_, _, _, _)
\* A for loop that takes a word only where it comes no earlier in
\* possible_words than the word chosen before it: one order per word list.
solver_backtrack_loop_in_order(possible_words, original_letters, st, i) ==
    IF i > Len(possible_words) THEN st
    ELSE LET word == possible_words[i]
             n == Len(st.current_solution)
         IN  IF /\ FitsRemaining(word, st.remaining_letters)
                /\ \A k \in 1..(i - 1) : n = 0 \/ st.current_solution[n] # possible_words[k]
             THEN LET taken == UseWord(st, word)
                      back == solver_backtrack(possible_words, original_letters, taken)
                      restored == UndoWord(back, word)
                  IN  solver_backtrack_loop_in_order(possible_words, original_letters,
                                                     restored, i + 1)
             ELSE solver_backtrack_loop_in_order(possible_words, original_letters, st, i + 1)

\* find_complete_solutions.backtrack, lines 83-118; st holds the objects the
\* helper reads and writes: remaining_letters, current_solution, solutions
\* (and which recorded solutions hold the list current_solution itself).
solver_backtrack(possible_words, original_letters, st) ==
    IF IsComplete(st.remaining_letters)
    THEN LET words == list_copy(st.current_solution)
         IN  [st EXCEPT
                !.solutions =
                    Append(@, Solution(words.value,
                                       CounterSub(original_letters, st.remaining_letters))),
                !.aliased = IF words.same_object THEN @ \cup {Len(st.solutions) + 1} ELSE @]
    ELSE solver_backtrack_loop(possible_words, original_letters, st, 1)

\* Lines 98-118: the for loop from its i-th word on.
solver_backtrack_loop(possible_words, original_letters, st, i) ==
    IF i > Len(possible_words) THEN st
    ELSE LET word == possible_words[i]
         IN  IF FitsRemaining(word, st.remaining_letters)
             THEN LET taken == UseWord(st, word)
                      back == solver_backtrack(possible_words, original_letters, taken)
                      restored == UndoWord(back, word)
                  IN  solver_backtrack_loop(possible_words, original_letters, restored, i + 1)
             ELSE solver_backtrack_loop(possible_words, original_letters, st, i + 1)

\* Line 120: the objects of the first call of backtrack.
FirstCall(available_letters) ==
    [remaining_letters |-> available_letters,
     current_solution |-> <<>>,
     solutions |-> <<>>,
     aliased |-> {}]

\* find_complete_solutions, lines 63-121 (possible_words in the order the
\* for loop iterates the set).
find_complete_solutions(possible_words, available_letters, min_length) ==
    solver_backtrack(possible_words, available_letters,
                     FirstCall(available_letters)).solutions

\* solve_qless that runs the search whatever all_words is.
solve_qless_always_search(word_letters, min_length, all, possible_words) ==
    [returned |-> find_complete_solutions(possible_words,
                                          Counter(lower(word_letters)), min_length),
     searched |-> TRUE]

\* solve_qless, lines 41-60: what it returns, and whether it called
\* find_complete_solutions.
solve_qless(word_letters, min_length, all, possible_words) ==
    IF all
    THEN [returned |-> [i \in 1..Len(possible_words) |->
                          Solution(<<possible_words[i]>>, Counter(possible_words[i]))],
          searched |-> FALSE]
    ELSE [returned |-> find_complete_solutions(possible_words,
                                               Counter(lower(word_letters)), min_length),
          searched |-> TRUE]

NotSolved == [returned |-> <<>>, searched |-> FALSE]

\* A caller is about to call solve_qless(letters, min_word_length, all_words).
InitSolver ==
    /\ pc = "solve_qless"
    /\ letters \in InputStrings
    /\ min_word_length \in 1..MaxMinLength
    /\ all_words \in BOOLEAN
    /\ solver_result = NotSolved
    /\ FrontendIdle
    /\ hashable = FALSE
    /\ anchors_reversed = FALSE
    /\ caller_grid = EmptyGrid
    /\ sorted_candidate_words = <<>>
    /\ original_available_letters = Counter(<<>>)
    /\ stack = <<>>
    /\ solutions = <<>>
    /\ previous = NoPrevious
    /\ target_letters_str = <<>>
    /\ layout_grid = <<>>
    /\ validation = NoValidation

\* The call of solve_qless, lines 41-60; the set possible_words is iterated in
\* one of its orders.
SolveQless ==
    /\ pc = "solve_qless"
    /\ \E possible_words \in
            ListsOf(dictionary_get_valid_words(lower(letters), min_word_length)) :
          solver_result' = solve_qless(letters, min_word_length, all_words, possible_words)
    /\ pc' = "solved"
    /\ UNCHANGED <<letters, min_word_length, hashable, anchors_reversed,
                   sorted_candidate_words, original_available_letters, stack, solutions,
                   previous, caller_grid, all_words, target_letters_str, layout_grid,
                   validation, frontend, grid_call, dictionary_cache, dictionary_call>>

NextSolver == SolveQless

SpecSolver == InitSolver /\ [][NextSolver]_vars

\* The words the word source yields for the arguments of the call.
WordSource ==
    {w \in DictWords : Len(w) >= min_word_length /\ Formable(w, letters)}

\* C11: with all_words true solve_qless returns one Solution per word of the
\* word source, each holding that word alone with the letter counts of the
\* word as used_letters, and the multi-word search is not run.
C11_AllWordsMode ==
    (pc = "solved" /\ all_words) =>
        /\ Len(solver_result.returned) = Cardinality(WordSource)
        /\ \A w \in WordSource :
              \E i \in 1..Len(solver_result.returned) :
                  solver_result.returned[i] = Solution(<<w>>, Counter(w))
        /\ ~solver_result.searched

\* An all_words call has returned two or more one-word solutions.
C11_Witness ==
    /\ pc = "solved"
    /\ all_words
    /\ Len(solver_result.returned) >= 2

\* The letters of a list of words, counted.
RECURSIVE LettersOfList(_)
LettersOfList(words) ==
    IF words = <<>> THEN Counter(<<>>)
    ELSE [c \in Chars |-> Counter(Head(words))[c] + LettersOfList(Tail(words))[c]]

\* The lists of at most n words of the set W.
WordLists(W, n) == UNION {[1..k -> W] : k \in 0..n}

\* C12: every solution of the full search uses all the letters: the letters
\* of its words, counted, and its used_letters are the available letters; and
\* when no list of possible words uses all the letters the result is empty.
C12_CompleteSolutionsOnly ==
    (pc = "solved" /\ ~all_words) =>
        /\ \A i \in 1..Len(solver_result.returned) :
              /\ LettersOfList(solver_result.returned[i].words) = Counter(lower(letters))
              /\ solver_result.returned[i].used_letters = Counter(lower(letters))
        /\ (~\E combination \in WordLists(WordSource, Len(letters)) :
                LettersOfList(combination) = Counter(lower(letters)))
            => solver_result.returned = <<>>

\* A full search has returned a solution of two words or more.
C12_Witness ==
    /\ pc = "solved"
    /\ ~all_words
    /\ \E i \in 1..Len(solver_result.returned) :
          Len(solver_result.returned[i].words) >= 2

(***************************************************************************)
(* solver.py: validate_qless_arrangement.  A layout is a sequence of rows, *)
(* a row a sequence of cells.  A cell is None (modelled ""), a string, or  *)
(* a value that is no string.  Violation messages are records holding the  *)
(* values the f-strings interpolate.                                       *)
(***************************************************************************)
\* Most cells of a layout handed to validate_qless_arrangement.
MaxCells == 3

\* A truthy cell value that is not a str (an int, say).
NonStringCell == "<int>"

\* The cell values of the layouts: None, letters, a digit, a two-letter
\* string, a non-string.
LayoutCells == {"", "a", "t", "T", "1", "at", NonStringCell}

\* isinstance(letter, str)
is_str(cell) == cell # NonStringCell

\* str.isalpha() of a cell that is a string.
cell_isalpha(cell) == cell \in {"a", "t", "T", "at"}

\* len() of a cell that is a string.
cell_len(cell) == IF cell = "" THEN 0 ELSE IF cell = "at" THEN 2 ELSE 1

\* The characters of a cell that is a string.
cell_chars(cell) == IF cell = "at" THEN <<"a", "t">> ELSE IF cell = "" THEN <<>> ELSE <<cell>>

\* "".join(cells)
RECURSIVE join(_)
join(cells) == IF cells = <<>> THEN <<>> ELSE cell_chars(Head(cells)) \o join(Tail(cells))

\* The target strings the model calls validate_qless_arrangement with.
TargetStrings ==
    { <<>>, <<"a">>, <<"T">>, <<"a", "t">>, <<"a", "a">>, <<"T", "a", "t">> }

\* Rectangular layouts of r rows and c columns.
RectLayouts(r, c) == [1..r -> [1..c -> LayoutCells]]

\* The layout with one more cell at the end of row k (if it has a row k).
WithLongerRow(grid, k, cell) ==
    IF k \in DOMAIN grid THEN [grid EXCEPT ![k] = Append(@, cell)] ELSE grid

\* The layouts of the model: no rows; rectangular ones of at most MaxCells
\* cells; and ones of two or more rows in which one row is a cell longer.
Layouts ==
    {<<>>}
    \cup UNION {RectLayouts(sh[1], sh[2]) :
                  sh \in {x \in (1..MaxCells) \X (0..MaxCells) : x[1] * x[2] <= MaxCells}}
    \cup UNION { {WithLongerRow(g, k, cell) :
                     g \in RectLayouts(sh[1], sh[2]), k \in 1..MaxCells, cell \in LayoutCells} :
                   sh \in {x \in (2..MaxCells) \X (0..MaxCells) : x[1] * x[2] + 1 <= MaxCells} }

\* not errors, with every list taken for empty.
not_errors_always(errors) == TRUE

\* not errors
not_errors(errors) == errors = <<>>

\* A return of the pair (valid, errors).
Returns(valid, errors) == [raised |-> FALSE, valid |-> valid, errors |-> errors]

\* An exception leaves validate_qless_arrangement.
Raises == [raised |-> TRUE, valid |-> FALSE, errors |-> <<>>]

\* A truth test that takes every counter for empty.
CounterTruthyNever(cnt) == FALSE

\* bool(counter): some key is present.
CounterTruthy(cnt) == \E c \in Chars : cnt[c] > 0

\* sorted(list(counter.keys())) of a counter that holds positive counts only.
RECURSIVE SortedChars(_)
SortedChars(S) ==
    IF S = {} THEN <<>>
    ELSE LET c == CHOOSE x \in S : \A y \in S : ord(x) <= ord(y)
         IN  <<c>> \o SortedChars(S \ {c})

sorted_keys(cnt) == SortedChars({c \in Chars : cnt[c] > 0})

\* The keys of Counter(s) in insertion order.
RECURSIVE KeysInOrder(_, _)
KeysInOrder(s, seen) ==
    IF s = <<>> THEN <<>>
    ELSE IF Head(s) \in seen THEN KeysInOrder(Tail(s), seen)
    ELSE <<Head(s)>> \o KeysInOrder(Tail(s), seen \cup {Head(s)})

\* The message of line 147 with the letters in descending order.
EmptyLayoutErrorDescending(target_letter_counts) ==
    [kind |-> "Layout grid is empty, but target letters were provided",
     letters |-> [i \in 1..Len(sorted_keys(target_letter_counts)) |->
                    sorted_keys(target_letter_counts)[
                        Len(sorted_keys(target_letter_counts)) + 1 - i]]]

\* Line 147.
EmptyLayoutError(target_letter_counts) ==
    [kind |-> "Layout grid is empty, but target letters were provided",
     letters |-> sorted_keys(target_letter_counts)]

\* Line 155.
RowLengthError(r, length, expected) ==
    [kind |-> "Internal Error: Grid normalization failed",
     row |-> r, length |-> length, expected |-> expected]

\* Line 162.
InvalidCharacterError(letter, r, c) ==
    [kind |-> "Invalid character", cell |-> letter, row |-> r, col |-> c]

\* Line 171.
MissingError(missing_from_layout) ==
    [kind |-> "Letters missing from layout that were in target",
     letters |-> sorted_keys(missing_from_layout)]

\* Line 173.
ExtraError(extra_in_layout) ==
    [kind |-> "Letters found in layout that were not in target",
     letters |-> sorted_keys(extra_in_layout)]

\* Line 180.
CountMismatchError(letter_key, layout_count, target_count) ==
    [kind |-> "count mismatch", letter |-> letter_key,
     layout |-> layout_count, target |-> target_count]

\* The message of lines 197-202 with the 0-based line and start.
InvalidWordErrorZeroBased(word_str, is_horizontal, line_num, start_idx) ==
    [kind |-> "Invalid word", word |-> word_str,
     orientation |-> IF is_horizontal THEN "horizontally" ELSE "vertically",
     line |-> line_num, start |-> start_idx]

\* Lines 197-202.
InvalidWordError(word_str, is_horizontal, line_num, start_idx) ==
    [kind |-> "Invalid word", word |-> word_str,
     orientation |-> IF is_horizontal THEN "horizontally" ELSE "vertically",
     line |-> line_num + 1, start |-> start_idx + 1]

\* Lines 158-164 for the cells c.. of row r (1-based); acc holds errors and
\* layout_letter_counts.
RECURSIVE ScanCells(_, _, _, _)
ScanCells(row, r, c, acc) ==
    IF c > Len(row) THEN acc
    ELSE LET letter == row[c]
         IN  IF letter = "" THEN ScanCells(row, r, c + 1, acc)
             ELSE IF ~is_str(letter) \/ ~cell_isalpha(letter) \/ cell_len(letter) # 1
             THEN ScanCells(row, r, c + 1,
                            [acc EXCEPT !.errors = Append(@, InvalidCharacterError(letter, r, c))])
             ELSE ScanCells(row, r, c + 1,
                            [acc EXCEPT !.counts[lower_char(letter)] = @ + 1])

\* Lines 153-164 for the rows r.. ; malformed is set when line 156 returns.
RECURSIVE ScanRows(_, _, _, _)
ScanRows(grid, grid_cols, r, acc) ==
    IF r > Len(grid) THEN acc
    ELSE IF Len(grid[r]) # grid_cols
    THEN [acc EXCEPT !.errors = Append(@, RowLengthError(r, Len(grid[r]), grid_cols)),
                     !.malformed = TRUE]
    ELSE ScanRows(grid, grid_cols, r + 1, ScanCells(grid[r], r, 1, acc))

\* Lines 166-180: the errors of the letter comparison.
ConservationErrors(layout_letter_counts, target_letters_str_lower) ==
    LET target_letter_counts == Counter(target_letters_str_lower)
        missing_from_layout == CounterSub(target_letter_counts, layout_letter_counts)
        extra_in_layout == CounterSub(layout_letter_counts, target_letter_counts)
        Mismatch(letter_key) ==
            /\ missing_from_layout[letter_key] = 0
            /\ extra_in_layout[letter_key] = 0
            /\ layout_letter_counts[letter_key] # target_letter_counts[letter_key]
        mismatched == SelectSeq(KeysInOrder(target_letters_str_lower, {}), Mismatch)
    IN  IF layout_letter_counts # target_letter_counts
        THEN (IF CounterTruthy(missing_from_layout)
              THEN <<MissingError(missing_from_layout)>> ELSE <<>>)
             \o (IF CounterTruthy(extra_in_layout)
                 THEN <<ExtraError(extra_in_layout)>> ELSE <<>>)
             \o [k \in 1..Len(mismatched) |->
                   CountMismatchError(mismatched[k], layout_letter_counts[mismatched[k]],
                                      target_letter_counts[mismatched[k]])]
        ELSE <<>>

\* Lines 194-205: the segment collected so far ends.
CloseSegment(segment, start_idx, is_horizontal, line_num, min_length, errors) ==
    IF Len(segment) >= min_length
    THEN LET word_str == join(segment)
         IN  IF ~dictionary_is_valid_word(word_str, min_length)
             THEN Append(errors, InvalidWordError(word_str, is_horizontal, line_num, start_idx))
             ELSE errors
    ELSE errors

\* _extract_and_validate_segments, lines 183-205, from index i (0-based) of
\* processed_line on; st holds current_segment_letters, start_idx, the errors
\* list, and whether cell_content.isalpha() raised AttributeError.
RECURSIVE extract_and_validate_segments(_, _, _, _, _, _)
extract_and_validate_segments(processed_line, is_horizontal, line_num, min_length, i, st) ==
    IF i >= Len(processed_line) \/ st.raised THEN st
    ELSE LET cell_content == processed_line[i + 1]
         IN  IF cell_content # "" /\ ~is_str(cell_content)
             THEN [st EXCEPT !.raised = TRUE]
             ELSE IF cell_content # "" /\ cell_isalpha(cell_content)
             THEN extract_and_validate_segments(
                      processed_line, is_horizontal, line_num, min_length, i + 1,
                      [st EXCEPT !.start_idx = IF st.segment = <<>> THEN i ELSE @,
                                 !.segment = Append(@, cell_content)])
             ELSE extract_and_validate_segments(
                      processed_line, is_horizontal, line_num, min_length, i + 1,
                      [st EXCEPT !.errors = CloseSegment(st.segment, st.start_idx, is_horizontal,
                                                         line_num, min_length, @),
                                 !.segment = <<>>,
                                 !.start_idx = -1])

\* One call of _extract_and_validate_segments on a line, errors in and out.
SegmentsOfLine(line, is_horizontal, line_num, min_length, scan) ==
    LET out == extract_and_validate_segments(
                   Append(line, ""), is_horizontal, line_num, min_length, 0,
                   [segment |-> <<>>, start_idx |-> -1,
                    errors |-> scan.errors, raised |-> scan.raised])
    IN  [errors |-> out.errors, raised |-> out.raised]

\* Lines 207-213: the loop over the lines k.. (0-based) of one direction.
RECURSIVE SegmentsOfLines(_, _, _, _, _)
SegmentsOfLines(lines, is_horizontal, min_length, k, scan) ==
    IF k >= Len(lines) \/ scan.raised THEN scan
    ELSE SegmentsOfLines(lines, is_horizontal, min_length, k + 1,
                         SegmentsOfLine(lines[k + 1], is_horizontal, k, min_length, scan))

\* Line 212: the columns of a rectangular layout.
Columns(grid, grid_cols) ==
    [c_idx \in 1..grid_cols |-> [r_idx \in 1..Len(grid) |-> grid[r_idx][c_idx]]]

\* validate_qless_arrangement, lines 124-215.
validate_qless_arrangement(target, grid, min_length) ==
    LET target_letters_str_lower == lower(target)
        target_letter_counts == Counter(target_letters_str_lower)
        grid_rows == Len(grid)
    IN  IF grid_rows = 0
        THEN LET errors == IF CounterTruthy(target_letter_counts)
                           THEN <<EmptyLayoutError(target_letter_counts)>> ELSE <<>>
             IN  Returns(not_errors(errors), errors)
        ELSE LET grid_cols == Len(grid[1])
                 scanned == ScanRows(grid, grid_cols, 1,
                                     [errors |-> <<>>, counts |-> Counter(<<>>),
                                      malformed |-> FALSE])
             IN  IF scanned.malformed THEN Returns(FALSE, scanned.errors)
                 ELSE LET conserved == scanned.errors
                                       \o ConservationErrors(scanned.counts,
                                                             target_letters_str_lower)
                          rows == SegmentsOfLines(grid, TRUE, min_length, 0,
                                                  [errors |-> conserved, raised |-> FALSE])
                          columns == IF grid_rows > 0 /\ grid_cols > 0
                                     THEN SegmentsOfLines(Columns(grid, grid_cols), FALSE,
                                                          min_length, 0, rows)
                                     ELSE rows
                      IN  IF columns.raised THEN Raises
                          ELSE Returns(not_errors(columns.errors), columns.errors)

\* A caller is about to call validate_qless_arrangement.
InitValidate ==
    /\ pc = "validate"
    /\ target_letters_str \in TargetStrings
    /\ layout_grid \in Layouts
    /\ min_word_length \in 1..MaxMinLength
    /\ validation = NoValidation
    /\ FrontendIdle
    /\ letters = <<>>
    /\ all_words = FALSE
    /\ solver_result = NotSolved
    /\ hashable = FALSE
    /\ anchors_reversed = FALSE
    /\ caller_grid = EmptyGrid
    /\ sorted_candidate_words = <<>>
    /\ original_available_letters = Counter(<<>>)
    /\ stack = <<>>
    /\ solutions = <<>>
    /\ previous = NoPrevious

\* The call of validate_qless_arrangement.
ValidateQlessArrangement ==
    /\ pc = "validate"
    /\ validation' = validate_qless_arrangement(target_letters_str, layout_grid, min_word_length)
    /\ pc' = "validated"
    /\ UNCHANGED <<letters, min_word_length, hashable, anchors_reversed,
                   sorted_candidate_words, original_available_letters, stack, solutions,
                   previous, caller_grid, all_words, solver_result, target_letters_str,
                   layout_grid, frontend, grid_call, dictionary_cache, dictionary_call>>

NextValidate == ValidateQlessArrangement

SpecValidate == InitValidate /\ [][NextValidate]_vars

(***************************************************************************)
(* Vocabulary of the properties of validate_qless_arrangement              *)
(***************************************************************************)
Validated == pc = "validated"

\* The rows of the layout all have the length of the first.
Rectangular(grid) == \A r \in 1..Len(grid) : Len(grid[r]) = Len(grid[1])

\* The call went through the row check to the final return.
CompletedNormally ==
    /\ Validated
    /\ ~validation.raised
    /\ Len(layout_grid) >= 1
    /\ Rectangular(layout_grid)

\* Cells that hold one letter.
LetterCells == {"a", "t", "T"}

\* Cells that are alphabetic strings, of one letter or more.
AlphabeticCells == {"a", "t", "T", "at"}

\* How often the letter ch (lower case) stands in the layout, case ignored.
LayoutCount(ch) ==
    Cardinality({rc \in (1..Len(layout_grid)) \X (1..MaxCells + 1) :
                    /\ rc[2] <= Len(layout_grid[rc[1]])
                    /\ layout_grid[rc[1]][rc[2]] \in LetterCells
                    /\ lower_char(layout_grid[rc[1]][rc[2]]) = ch})

\* How often the letter ch (lower case) stands in the target, case ignored.
TargetCount(ch) ==
    Cardinality({i \in 1..Len(target_letters_str) : lower_char(target_letters_str[i]) = ch})

ErrorsOfKind(kind) ==
    {k \in 1..Len(validation.errors) : validation.errors[k].kind = kind}

\* The rows of the layout, and its columns when it is rectangular.
LinesOf(is_horizontal) ==
    IF is_horizontal THEN layout_grid
    ELSE IF Len(layout_grid) >= 1 /\ Rectangular(layout_grid)
    THEN [c \in 1..Len(layout_grid[1]) |->
            [r \in 1..Len(layout_grid) |-> layout_grid[r][c]]]
    ELSE <<>>

\* Where the maximal runs of cells of the set S start in a line, and the run
\* that starts at i.
RunStarts(line, S) ==
    {i \in 1..Len(line) : line[i] \in S /\ (i = 1 \/ line[i - 1] \notin S)}

RunAt(line, S, i) ==
    LET last == CHOOSE j \in i..Len(line) :
                    /\ \A k \in i..j : line[k] \in S
                    /\ j = Len(line) \/ line[j + 1] \notin S
    IN  SubSeq(line, i, last)

\* How many violations equal to e the call returned.
Reported(e) == Cardinality({k \in 1..Len(validation.errors) : validation.errors[k] = e})

\* C13: the pair returned has valid true exactly when the violation list is
\* empty, on the return for no rows, for a malformed layout and at the end.
C13_ValidIffNoViolations ==
    (Validated /\ ~validation.raised) =>
        (validation.valid <=> validation.errors = <<>>)

\* A call on a layout with rows has returned violations.
C13_Witness ==
    /\ Validated
    /\ ~validation.raised
    /\ Len(layout_grid) >= 1
    /\ validation.errors # <<>>

\* The letters the layout holds less often, and more often, than the target.
LowerInLayout == {ch \in Chars : LayoutCount(ch) < TargetCount(ch)}

HigherInLayout == {ch \in Chars : LayoutCount(ch) > TargetCount(ch)}

\* What C14 says of one call: a conservation violation is reported exactly
\* when the counts differ; the missing message lists the letters the layout
\* holds less often, the extra message those it holds more often; a layout of
\* empty cells only is valid only for an empty target.
ConservationReported ==
    /\ (ErrorsOfKind("Letters missing from layout that were in target")
          \cup ErrorsOfKind("Letters found in layout that were not in target")
          \cup ErrorsOfKind("Layout grid is empty, but target letters were provided") # {})
        <=> (LowerInLayout \cup HigherInLayout # {})
    /\ \A k \in ErrorsOfKind("Letters missing from layout that were in target") :
          validation.errors[k].letters = SortedChars(LowerInLayout)
    /\ \A k \in ErrorsOfKind("Letters found in layout that were not in target") :
          validation.errors[k].letters = SortedChars(HigherInLayout)
    /\ Len(layout_grid) >= 1 =>
          /\ (ErrorsOfKind("Letters missing from layout that were in target") # {})
                <=> (LowerInLayout # {})
          /\ (ErrorsOfKind("Letters found in layout that were not in target") # {})
                <=> (HigherInLayout # {})
    /\ ((\A r \in 1..Len(layout_grid) : \A c \in 1..Len(layout_grid[r]) :
            layout_grid[r][c] = "") /\ validation.valid)
        => target_letters_str = <<>>

InvalidWordsReported(S) ==
    \A is_horizontal \in BOOLEAN :
        \A n \in 1..Len(LinesOf(is_horizontal)) :
            \A i \in RunStarts(LinesOf(is_horizontal)[n], S) :
                LET run == RunAt(LinesOf(is_horizontal)[n], S, i)
                    e == [kind |-> "Invalid word", word |-> join(run),
                          orientation |-> IF is_horizontal THEN "horizontally"
                                                           ELSE "vertically",
                          line |-> n, start |-> i]
                IN  Len(run) >= min_word_length =>
                        Reported(e) = IF lower(join(run)) \in DictWords THEN 0 ELSE 1

C16_ShortRunsReported ==
    CompletedNormally =>
        \A is_horizontal \in BOOLEAN :
            \A n \in 1..Len(LinesOf(is_horizontal)) :
                \A i \in RunStarts(LinesOf(is_horizontal)[n], LetterCells) :
                    LET run == RunAt(LinesOf(is_horizontal)[n], LetterCells, i)
                    IN  Len(run) < min_word_length =>
                            /\ ~validation.valid
                            /\ \E k \in ErrorsOfKind("is shorter than min_word_length") :
                                  validation.errors[k].word = run

\* The target letters, lower case, each once, sorted.
SortedTargetLetters ==
    SortedChars({lower_char(target_letters_str[i]) : i \in 1..Len(target_letters_str)})

\* C17: for a layout of no rows the call returns valid and no violation when
\* the target is empty, and otherwise invalid with the one violation that
\* names the sorted distinct target letters; nothing else is checked.
C17_EmptyLayout ==
    (Validated /\ Len(layout_grid) = 0) =>
        /\ ~validation.raised
        /\ IF target_letters_str = <<>>
           THEN validation.valid /\ validation.errors = <<>>
           ELSE /\ ~validation.valid
                /\ Len(validation.errors) = 1
                /\ validation.errors[1].kind =
                       "Layout grid is empty, but target letters were provided"
                /\ validation.errors[1].letters = SortedTargetLetters

\* A call with no rows and a target whose letters are not in sorted order.
C17_Witness ==
    /\ Validated
    /\ Len(layout_grid) = 0
    /\ Len(SortedTargetLetters) >= 2
    /\ lower_char(target_letters_str[1]) # SortedTargetLetters[1]

\* The positions of the cells that are neither empty nor one letter.
BadCells ==
    {rc \in (1..Len(layout_grid)) \X (1..MaxCells + 1) :
        /\ rc[2] <= Len(layout_grid[rc[1]])
        /\ layout_grid[rc[1]][rc[2]] \notin LetterCells \cup {""}}

\* C18: no call raises; a call that completes reports every cell that is
\* neither empty nor one letter as an Invalid character violation, and no
\* word it reports runs through such a cell.
C18_BadCellsReportedNeverRaise ==
    Validated =>
        /\ ~validation.raised
        /\ CompletedNormally =>
              /\ \A rc \in BadCells :
                    Reported([kind |-> "Invalid character",
                              cell |-> layout_grid[rc[1]][rc[2]],
                              row |-> rc[1], col |-> rc[2]]) = 1
              /\ \A k \in ErrorsOfKind("Invalid word") :
                    \A j \in 1..Len(validation.errors[k].word) :
                        \E rc \in (1..Len(layout_grid)) \X (1..MaxCells + 1) :
                            /\ rc[2] <= Len(layout_grid[rc[1]])
                            /\ layout_grid[rc[1]][rc[2]] \in LetterCells
                            /\ layout_grid[rc[1]][rc[2]] = validation.errors[k].word[j]

(***************************************************************************)
(* The front ends: cli.py main and the endpoints of web/main.py            *)
(***************************************************************************)
\* The number of dice: `len(letters) != 12`.
RequiredLetters == 12

\* The longest letters string a request holds, padding not counted.
MaxInputLen == 13

Whitespace == {" "}

\* The characters of the letters strings of the requests.
FrontendChars == InputChars \cup {"1"} \cup Whitespace

\* n characters, all "a" but the one at p (none for p = 0), which is ch.
InputBody(n, p, ch) == [i \in 1..n |-> IF i = p THEN ch ELSE "a"]

\* The letters strings the requests hold: a body, with or without a blank
\* before and after it.
LettersInputs ==
    {pad[1] \o InputBody(n, np[1], np[2]) \o pad[2] :
        n \in 0..MaxInputLen,
        np \in (0..MaxInputLen) \X (FrontendChars \ {"a"}),
        pad \in {<<>>, <<" ">>} \X {<<>>, <<" ">>}}

\* str.strip()
RECURSIVE lstrip(_)
lstrip(s) == IF s # <<>> /\ Head(s) \in Whitespace THEN lstrip(Tail(s)) ELSE s

RECURSIVE rstrip(_)
rstrip(s) ==
    IF s # <<>> /\ s[Len(s)] \in Whitespace THEN rstrip(SubSeq(s, 1, Len(s) - 1)) ELSE s

strip(s) == rstrip(lstrip(s))

\* str.isalpha(): at least one character, and all alphabetic.
isalpha(s) == s # <<>> /\ \A i \in 1..Len(s) : s[i] \in InputChars

\* What a call of the solver can come to, seen from its caller: a list with
\* solutions, an empty list, or an exception.
SolveQlessOutcomes == {"solutions", "no solutions"}

SolveQlessGridOutcomes == {"solutions", "no solutions", "raised"}

Respond(code, message) == [code |-> code, message |-> message]

\* A test that accepts every string of 12 characters.
AcceptedByLengthOnly(s) == Len(s) = RequiredLetters

\* `len(letters) != 12 or not letters.isalpha()`, negated.
Accepted(s) == Len(s) = RequiredLetters /\ isalpha(s)

\* A request is about to be handled by cli.main or by a web endpoint.
InitFrontend ==
    /\ pc = "request"
    /\ entry_point \in {"cli", "htmx", "image", "api"}
    /\ generate \in (IF entry_point = "cli" THEN BOOLEAN ELSE {FALSE})
    /\ args_letters \in (IF generate THEN {<<>>} ELSE LettersInputs)
    /\ all_words \in (IF entry_point = "cli" /\ ~generate THEN BOOLEAN ELSE {FALSE})
    /\ solver_imported \in (IF entry_point = "cli" THEN {TRUE} ELSE BOOLEAN)
    /\ min_word_length \in 1..MaxMinLength
    /\ solver_calls = <<>>
    /\ response = NoResponse
    /\ grid_call = NoGridCall
    /\ DictionaryIdle
    /\ letters = <<>>
    /\ solver_result = NotSolved
    /\ target_letters_str = <<>>
    /\ layout_grid = <<>>
    /\ validation = NoValidation
    /\ hashable = FALSE
    /\ anchors_reversed = FALSE
    /\ caller_grid = EmptyGrid
    /\ sorted_candidate_words = <<>>
    /\ original_available_letters = Counter(<<>>)
    /\ stack = <<>>
    /\ solutions = <<>>
    /\ previous = NoPrevious

\* What a handler leaves alone.
behind_frontend ==
    <<min_word_length, hashable, anchors_reversed, sorted_candidate_words,
      original_available_letters, stack, solutions, previous, caller_grid, all_words,
      solver_result, target_letters_str, layout_grid, validation, entry_point,
      args_letters, generate, solver_imported, grid_call, dictionary_cache,
      dictionary_call>>

\* cli.main
CliMain ==
    /\ pc = "request"
    /\ entry_point = "cli"
    /\ IF generate
       THEN /\ response' = Respond(0, "Generated random roll")
            /\ UNCHANGED <<letters, solver_calls>>
       ELSE /\ letters' = lower(strip(args_letters))
            /\ IF Len(letters') # RequiredLetters
               THEN /\ response' = Respond(1, "Error: Expected exactly 12 letters")
                    /\ UNCHANGED solver_calls
               ELSE IF ~isalpha(letters')
               THEN /\ response' = Respond(1, "Error: Input must contain only letters")
                    /\ UNCHANGED solver_calls
               ELSE /\ solver_calls' =
                          Append(solver_calls,
                                 [solver |-> "solve_qless", letters |-> letters',
                                  min_word_length |-> min_word_length,
                                  all_words |-> all_words])
                    /\ \E outcome \in SolveQlessOutcomes :
                          response' = Respond(0, IF outcome = "no solutions"
                                                 THEN "No solutions found."
                                                 ELSE "Found solution(s)")
    /\ pc' = "responded"
    /\ UNCHANGED behind_frontend

\* The call of solve_qless_grid inside try/except of a web handler, and the
\* error message the handler derives from it ("" for None).
CallSolveQlessGrid(checked_letters, error_message) ==
    /\ solver_calls' =
          Append(solver_calls,
                 [solver |-> "solve_qless_grid", letters |-> checked_letters,
                  min_word_length |-> min_word_length, all_words |-> FALSE])
    /\ \E outcome \in SolveQlessGridOutcomes :
          error_message = IF outcome = "raised"
                          THEN "An error occurred during solving"
                          ELSE ""

\* solve_letters_htmx
SolveLettersHtmx ==
    /\ pc = "request"
    /\ entry_point = "htmx"
    /\ letters' = strip(args_letters)
    /\ IF ~solver_imported
       THEN /\ response' = Respond(200, "Solver is not available due to an import error.")
            /\ UNCHANGED solver_calls
       ELSE IF ~Accepted(letters')
       THEN /\ response' = Respond(200, "Please enter exactly 12 alphabetic letters.")
            /\ UNCHANGED solver_calls
       ELSE \E error_message \in {"", "An error occurred during solving"} :
               /\ CallSolveQlessGrid(letters', error_message)
               /\ response' = Respond(200, error_message)
    /\ pc' = "responded"
    /\ UNCHANGED behind_frontend

\* solve_letters_image; args_letters is what detect_letters found in the image.
SolveLettersImage ==
    /\ pc = "request"
    /\ entry_point = "image"
    /\ letters' = args_letters
    /\ IF ~solver_imported
       THEN /\ response' = Respond(200, "Solver or detection unavailable.")
            /\ UNCHANGED solver_calls
       ELSE IF ~Accepted(letters')
       THEN /\ response' =
                  Respond(200, "Detected letters were not exactly 12 alphabetic characters.")
            /\ UNCHANGED solver_calls
       ELSE \E error_message \in {"", "An error occurred during solving"} :
               /\ CallSolveQlessGrid(letters', error_message)
               /\ response' = Respond(200, error_message)
    /\ pc' = "responded"
    /\ UNCHANGED behind_frontend

\* solve_letters_api
SolveLettersApi ==
    /\ pc = "request"
    /\ entry_point = "api"
    /\ IF ~solver_imported
       THEN /\ response' =
                  Respond(500, "Solver function not available due to an import error.")
            /\ UNCHANGED <<letters, solver_calls>>
       ELSE /\ letters' = strip(args_letters)
            /\ IF ~Accepted(letters')
               THEN /\ response' =
                          Respond(400, "Letters must be exactly 12 alphabetic characters.")
                    /\ UNCHANGED solver_calls
               ELSE \E error_message \in {"", "An error occurred during solving"} :
                       /\ CallSolveQlessGrid(letters', error_message)
                       /\ response' = IF error_message = ""
                                      THEN Respond(200, "")
                                      ELSE Respond(500, error_message)
    /\ pc' = "responded"
    /\ UNCHANGED behind_frontend

NextFrontend ==
    \/ CliMain
    \/ SolveLettersHtmx
    \/ SolveLettersImage
    \/ SolveLettersApi

SpecFrontend == InitFrontend /\ [][NextFrontend]_vars

\* The request has been answered.
Responded == pc = "responded"

\* The letters string of the request, stripped, has exactly 12 characters, all
\* alphabetic.
TwelveLetters ==
    /\ Len(strip(args_letters)) = RequiredLetters
    /\ \A i \in 1..Len(strip(args_letters)) : strip(args_letters)[i] \in InputChars

\* What C19 says of every handler: the solver is called only for twelve
\* letters; otherwise it is not called and an error is reported, by cli.main
\* with a non-zero exit and the length message before the letters message.
RejectedBeforeSolving ==
    /\ solver_calls # <<>> => TwelveLetters
    /\ (~TwelveLetters /\ ~generate) =>
          /\ solver_calls = <<>>
          /\ response.message # ""
          /\ entry_point = "cli" =>
                /\ response.code # 0
                /\ response.message =
                      IF Len(strip(args_letters)) # RequiredLetters
                      THEN "Error: Expected exactly 12 letters"
                      ELSE "Error: Input must contain only letters"

StateOfNode(a) == <<a.current_grid, a.current_remaining_letters, a.used_words_set>>

Shorter(s, t) == IF Len(s) <= Len(t) THEN Len(s) ELSE Len(t)

\* C20: no step of the search changes the grid, the remaining-letter counter
\* or the used-word set of an activation that stays on the stack, so every
\* (anchor, word) iteration of a node starts from the same state, whatever
\* its child branches placed; and no step changes a solution already recorded.
C20_SnapshotIsolation ==
    [][/\ \A i \in 1..Shorter(stack, stack') : StateOfNode(stack'[i]) = StateOfNode(stack[i])
       /\ \A i \in 1..Shorter(solutions, solutions') : solutions'[i] = solutions[i]]_vars

\* A node tries a further word after a child branch of it has placed a word
\* and recorded a solution.
C20_Witness ==
    /\ pc = "backtrack"
    /\ Len(stack) >= 2
    /\ stack[1].word > 2
    /\ Top.current_grid # stack[Len(stack) - 1].current_grid
    /\ solutions # <<>>

(***************************************************************************)
(* The letters and the used words of the grid search                       *)
(***************************************************************************)
\* The words placed on a grid, written one after the other.
RECURSIVE JoinedWords(_)
JoinedWords(words) ==
    IF words = <<>> THEN <<>> ELSE Head(words).word \o JoinedWords(Tail(words))

\* C21: in every activation of backtrack no remaining count is negative and
\* the remaining letters together with the letters of the words placed on its
\* grid are the original letters; and the used_letters of every recorded
\* solution are the letters of the words placed on its grid.
C21_LedgerInvariant ==
    /\ \A i \in 1..Len(stack) :
          /\ \A c \in Chars : stack[i].current_remaining_letters[c] >= 0
          /\ Counter(JoinedWords(stack[i].current_grid.words)) =
                [c \in Chars |-> original_available_letters[c]
                                    - stack[i].current_remaining_letters[c]]
    /\ \A k \in 1..Len(solutions) :
          solutions[k].used_letters = Counter(JoinedWords(solutions[k].grid.words))

\* A solution of two words has been recorded, one of them with a letter twice,
\* and an activation with letters left is on the stack.
C21_Witness ==
    /\ \E k \in 1..Len(solutions) :
          /\ Len(solutions[k].grid.words) >= 2
          /\ \E c \in Chars : solutions[k].used_letters[c] >= 2
    /\ \E i \in 1..Len(stack) :
          /\ stack[i].current_grid.words # <<>>
          /\ SumValues(stack[i].current_remaining_letters) > 0

\* The word strings placed on a grid, in order.
WordStrings(grid) == [k \in 1..Len(grid.words) |-> grid.words[k].word]

\* C22: a step that calls backtrack from backtrack has placed one word that
\* was not in the caller's used-word set and whose letters the caller's
\* remaining letters supply; the used-word set of the new activation is the
\* caller's with that word added; and in no solution a word occurs twice.
C22_TransitionGuard ==
    /\ [][(pc = "backtrack" /\ Len(stack') = Len(stack) + 1) =>
            LET parent == Top
                child == stack'[Len(stack')]
                w == child.current_grid.words[Len(child.current_grid.words)].word
            IN  /\ WordStrings(child.current_grid)
                      = Append(WordStrings(parent.current_grid), w)
                /\ w \notin parent.used_words_set
                /\ \A c \in Chars :
                      Cardinality({i \in 1..Len(w) : lower_char(w[i]) = c})
                          <= parent.current_remaining_letters[c]
                /\ child.used_words_set = parent.used_words_set \cup {w}]_vars
    /\ [](\A k \in 1..Len(solutions) :
            \A i, j \in 1..Len(solutions[k].grid.words) :
                solutions[k].grid.words[i].word = solutions[k].grid.words[j].word => i = j)

\* An activation called for a grid with a placed word comes to a candidate
\* word that its remaining letters supply and that is used already.
C22_Witness ==
    /\ InLoop
    /\ Len(stack) >= 2
    /\ Top.current_grid.words # <<>>
    /\ Top.point <= Len(Top.anchor_points)
    /\ Top.word <= Len(sorted_candidate_words)
    /\ sorted_candidate_words[Top.word] \in Top.used_words_set
    /\ \A c \in Chars :
          Counter(sorted_candidate_words[Top.word])[c] <= Top.current_remaining_letters[c]

(***************************************************************************)
(* The methods of Grid, called by a caller on a Grid of its own            *)
(***************************************************************************)
\* The cell map after the assignments of the words, in order (lines 73-79).
RECURSIVE ReplayWords(_, _)
ReplayWords(cells, words) ==
    IF words = <<>> THEN cells
    ELSE ReplayWords(WriteWord(cells, Head(words).word, Head(words).position), Tail(words))

\* remove_word that takes the cells of the word out of the cell map.
remove_word_subtracting(grid, word_to_remove) ==
    LET gone == {CellOf(word_to_remove.position, i) : i \in 1..Len(word_to_remove.word)}
    IN  [words |-> SelectSeq(grid.words, LAMBDA pw : pw # word_to_remove),
         cells |-> [p \in (DOMAIN grid.cells) \ gone |-> grid.cells[p]]]

\* remove_word that drops only the first entry equal to the word.
remove_word_first_only(grid, word_to_remove) ==
    LET hits == {k \in 1..Len(grid.words) : grid.words[k] = word_to_remove}
        first == CHOOSE k \in hits : \A m \in hits : k <= m
        words == IF hits = {} THEN grid.words
                 ELSE SubSeq(grid.words, 1, first - 1)
                          \o SubSeq(grid.words, first + 1, Len(grid.words))
    IN  [words |-> words, cells |-> ReplayWords(EmptyCells, words)]

\* Grid.remove_word
remove_word(grid, word_to_remove) ==
    LET words == SelectSeq(grid.words, LAMBDA pw : pw # word_to_remove)
    IN  [words |-> words, cells |-> ReplayWords(EmptyCells, words)]

\* A Grid() has been constructed; nothing else runs.
InitGrid ==
    /\ pc = "grid"
    /\ caller_grid = EmptyGrid
    /\ hashable \in BOOLEAN
    /\ anchors_reversed \in BOOLEAN
    /\ letters = <<>>
    /\ min_word_length = 1
    /\ sorted_candidate_words = <<>>
    /\ original_available_letters = Counter(<<>>)
    /\ stack = <<>>
    /\ solutions = <<>>
    /\ previous = NoPrevious
    /\ OutsideGridIdle

\* What the methods of a Grid leave alone.
behind_grid ==
    <<letters, min_word_length, hashable, anchors_reversed, sorted_candidate_words,
      original_available_letters, stack, solutions, previous, all_words, solver_result,
      target_letters_str, layout_grid, validation, frontend, dictionary_cache,
      dictionary_call>>

\* The positions the caller places words at: words that lie apart, that cross
\* in a cell and that lie on one another are among the placements.
CallPositions ==
    {GridPosition(0, 0, "across"), GridPosition(0, 0, "down"),
     GridPosition(1, 0, "down"), GridPosition(0, 1, "across")}

\* grid.place_word(word, position)
PlaceWordCall ==
    /\ pc = "grid"
    /\ Len(caller_grid.words) < MaxPlaced
    /\ \E word \in DictWords, position \in CallPositions :
          /\ caller_grid' = place_word(caller_grid, word, position)
          /\ grid_call' = [method |-> "place_word",
                           argument |-> PlacedWord(word, position),
                           before |-> caller_grid, raised |-> FALSE, returned |-> <<>>]
    /\ UNCHANGED pc
    /\ UNCHANGED behind_grid

\* The PlacedWord objects the caller removes: those of the grid, and one that
\* need not be there.
RemoveArguments(grid) ==
    SeqToSet(grid.words) \cup {PlacedWord(<<"a", "t">>, GridPosition(0, 0, "across"))}

\* grid.remove_word(word_to_remove)
RemoveWordCall ==
    /\ pc = "grid"
    /\ \E word_to_remove \in RemoveArguments(caller_grid) :
          /\ caller_grid' = remove_word(caller_grid, word_to_remove)
          /\ grid_call' = [method |-> "remove_word", argument |-> word_to_remove,
                           before |-> caller_grid, raised |-> FALSE, returned |-> <<>>]
    /\ pc' = "grid removed"
    /\ UNCHANGED behind_grid

\* grid.get_anchor_points(): the list, or the TypeError of anchors.add where
\* GridPosition objects cannot be put in a set.
GetAnchorPointsCall ==
    /\ pc = "grid"
    /\ grid_call' =
          IF CanBuildAnchorSet(caller_grid)
          THEN [method |-> "get_anchor_points", argument |-> <<>>,
                before |-> caller_grid, raised |-> FALSE,
                returned |-> get_anchor_points(caller_grid, anchors_reversed)]
          ELSE [method |-> "get_anchor_points", argument |-> <<>>,
                before |-> caller_grid, raised |-> TRUE, returned |-> <<>>]
    /\ pc' = "grid anchors"
    /\ UNCHANGED caller_grid
    /\ UNCHANGED behind_grid

NextGrid ==
    \/ PlaceWordCall
    \/ RemoveWordCall
    \/ GetAnchorPointsCall

SpecGrid == InitGrid /\ [][NextGrid]_vars

\* The anchors the claim lists for a cell map: the origin in both directions
\* for the empty map; otherwise, for every occupied cell, the position itself,
\* the one before and the one after it along y for across, along x for down.
ListedAnchors(cells) ==
    IF DOMAIN cells = {}
    THEN {[x |-> 0, y |-> 0, direction |-> "across"], [x |-> 0, y |-> 0, direction |-> "down"]}
    ELSE {a \in [x : UNION {{p[1] - 1, p[1], p[1] + 1} : p \in DOMAIN cells},
                 y : UNION {{p[2] - 1, p[2], p[2] + 1} : p \in DOMAIN cells},
                 direction : {"across", "down"}] :
            \E p \in DOMAIN cells :
                \/ a.direction = "across" /\ a.x = p[1] /\ a.y \in {p[2] - 1, p[2], p[2] + 1}
                \/ a.direction = "down" /\ a.y = p[2] /\ a.x \in {p[1] - 1, p[1], p[1] + 1}}

AnchorPointsReturned == pc = "grid anchors"

\* C23: a call of get_anchor_points returns a list without duplicates that
\* holds exactly the anchors listed for the cell map of the grid.
C23_AnchorPointsExact ==
    AnchorPointsReturned =>
        /\ ~grid_call.raised
        /\ \A i, j \in 1..Len(grid_call.returned) :
              grid_call.returned[i] = grid_call.returned[j] => i = j
        /\ SeqToSet(grid_call.returned) = ListedAnchors(caller_grid.cells)

WordRemoved == pc = "grid removed"

\* The cell the i-th letter of a placed word lies on.
LetterCell(pw, i) ==
    IF pw.position.direction = "across"
    THEN <<pw.position.x + i - 1, pw.position.y>>
    ELSE <<pw.position.x, pw.position.y + i - 1>>

\* The placed words of a list that lie on cell p, by index.
WordsOn(words, p) ==
    {k \in 1..Len(words) : \E i \in 1..Len(words[k].word) : LetterCell(words[k], i) = p}

\* The letter the k-th word of a list has on cell p.
LetterOn(words, k, p) ==
    words[k].word[CHOOSE i \in 1..Len(words[k].word) : LetterCell(words[k], i) = p]

\* The cell map is the one placing the words in order on an empty map gives:
\* its cells are those some word lies on, each with the letter of the last
\* such word.
CellsAreReplayOf(cells, words) ==
    /\ DOMAIN cells =
          UNION {{LetterCell(words[k], i) : i \in 1..Len(words[k].word)} : k \in 1..Len(words)}
    /\ \A p \in DOMAIN cells :
          \E k \in WordsOn(words, p) :
              /\ \A m \in WordsOn(words, p) : m <= k
              /\ cells[p] = LetterOn(words, k, p)

\* The list is the list before with the entries equal to pw left out.
IsListWithout(words, before, pw) ==
    LET kept == {k \in 1..Len(before) : before[k] # pw}
    IN  /\ Len(words) = Cardinality(kept)
        /\ \A j \in 1..Len(words) :
              \E k \in kept :
                  /\ Cardinality({m \in kept : m < k}) = j - 1
                  /\ words[j] = before[k]

\* C24: after remove_word(pw) the words are the words before without pw, in
\* their order, and the cells are those of replaying the remaining words on an
\* empty map; so a cell pw shared with a remaining word keeps that word's
\* letter, and with no word left the cell map is empty.
C24_RemoveWordReplays ==
    WordRemoved =>
        /\ IsListWithout(caller_grid.words, grid_call.before.words, grid_call.argument)
        /\ CellsAreReplayOf(caller_grid.cells, caller_grid.words)
        /\ \A p \in DOMAIN grid_call.before.cells :
              WordsOn(caller_grid.words, p) # {} =>
                  /\ p \in DOMAIN caller_grid.cells
                  /\ \E k \in WordsOn(caller_grid.words, p) :
                        caller_grid.cells[p] = LetterOn(caller_grid.words, k, p)
        /\ caller_grid.words = <<>> => DOMAIN caller_grid.cells = {}

\* The first of two placed words has been removed, and a cell the two shared
\* holds the letter of the word that stays.
C24_Witness ==
    /\ WordRemoved
    /\ Len(grid_call.before.words) = 2
    /\ grid_call.argument = grid_call.before.words[1]
    /\ Len(caller_grid.words) = 1
    /\ \E p \in DOMAIN caller_grid.cells :
          /\ WordsOn(grid_call.before.words, p) = {1, 2}
          /\ caller_grid.cells[p] = LetterOn(caller_grid.words, 1, p)

\* C27: when remove_word is called with the word and position place_word was
\* just called with, the grid is again what it was before the placement,
\* words and cells, if no equal entry was among its words; if one was, no
\* entry equal to it is left, the other words staying in their order.
C27_PlaceRemoveRoundTrip ==
    [][(/\ pc = "grid"
        /\ grid_call.method = "place_word"
        /\ grid_call'.method = "remove_word"
        /\ grid_call'.argument = grid_call.argument) =>
            IF \A k \in 1..Len(grid_call.before.words) :
                  grid_call.before.words[k] # grid_call.argument
            THEN caller_grid' = grid_call.before
            ELSE /\ \A k \in 1..Len(caller_grid'.words) :
                        caller_grid'.words[k] # grid_call.argument
                 /\ IsListWithout(caller_grid'.words, grid_call.before.words,
                                  grid_call.argument)
                 /\ Len(caller_grid'.words) < Len(grid_call.before.words)]_vars

\* The word placed last, which wrote another letter to a cell of the word
\* placed before it, has been removed, and the cell holds the earlier letter.
C27_Witness ==
    /\ WordRemoved
    /\ Len(grid_call.before.words) = 2
    /\ grid_call.argument = grid_call.before.words[2]
    /\ Len(caller_grid.words) = 1
    /\ \E p \in DOMAIN caller_grid.cells :
          /\ WordsOn(grid_call.before.words, p) = {1, 2}
          /\ grid_call.before.cells[p] # caller_grid.cells[p]

(***************************************************************************)
(* dictionary.py: the cached word set _DICTIONARY and the functions that   *)
(* reach it                                                                *)
(***************************************************************************)
\* _DICTIONARY = None
NotLoaded == [loaded |-> FALSE, words |-> {}]

\* The built-in fallback set of lines 54-80, as far as the model's letters
\* write it: none of its words consists of a and t only.
FallbackWords == {}

\* load_dictionary that reads the file at every call.
load_dictionary_every_call(cache, file_found) ==
    [loaded |-> TRUE, words |-> IF file_found THEN DictWords ELSE FallbackWords]

\* load_dictionary, lines 26-82: what _DICTIONARY is after the call.
load_dictionary_cached(cache, file_found) ==
    IF cache.loaded THEN cache
    ELSE [loaded |-> TRUE, words |-> IF file_found THEN DictWords ELSE FallbackWords]

\* The words callers ask about and add: lower and upper case, in the file and
\* not in it.
CallWords == DictWords \cup {<<"t">>, <<"T", "a">>, <<"T", "T">>}

CustomWords == {<<"t">>, <<"T", "a">>, <<"T", "T">>}

\* The letters strings callers pass.
CallLetters == {<<>>, <<"a", "t">>, <<"t", "T">>, <<"T", "a", "t">>}

\* Whether the dictionary file is there, asked only where load_dictionary
\* opens it.
FileOutcomes(cache) == IF cache.loaded THEN {TRUE} ELSE BOOLEAN

DictionaryCall(function, arguments, valid, returned) ==
    [function |-> function, arguments |-> arguments, valid |-> valid,
     returned |-> returned]

\* A process has imported dictionary.py.
InitDictionary ==
    /\ pc = "dictionary"
    /\ dictionary_cache = NotLoaded
    /\ dictionary_call = DictionaryCall("none", <<>>, FALSE, {})
    /\ grid_call = NoGridCall
    /\ entry_point = "none"
    /\ args_letters = <<>>
    /\ generate = FALSE
    /\ solver_imported = TRUE
    /\ solver_calls = <<>>
    /\ response = NoResponse
    /\ all_words = FALSE
    /\ solver_result = NotSolved
    /\ target_letters_str = <<>>
    /\ layout_grid = <<>>
    /\ validation = NoValidation
    /\ letters = <<>>
    /\ min_word_length = 1
    /\ hashable = FALSE
    /\ anchors_reversed = FALSE
    /\ caller_grid = EmptyGrid
    /\ sorted_candidate_words = <<>>
    /\ original_available_letters = Counter(<<>>)
    /\ stack = <<>>
    /\ solutions = <<>>
    /\ previous = NoPrevious

\* What the functions of dictionary.py leave alone.
behind_dictionary ==
    <<letters, min_word_length, hashable, anchors_reversed, pc, sorted_candidate_words,
      original_available_letters, stack, solutions, previous, caller_grid, all_words,
      solver_result, target_letters_str, layout_grid, validation, frontend, grid_call>>

\* load_dictionary()
LoadDictionaryCall ==
    /\ \E file_found \in FileOutcomes(dictionary_cache) :
          dictionary_cache' = load_dictionary_cached(dictionary_cache, file_found)
    /\ dictionary_call' = DictionaryCall("load_dictionary", <<>>, FALSE, {})
    /\ UNCHANGED behind_dictionary

\* is_valid_word(word, min_length)
IsValidWordCall ==
    /\ \E word \in CallWords, min_length \in 1..MaxMinLength, file_found \in FileOutcomes(dictionary_cache) :
          IF Len(word) < min_length
          THEN /\ dictionary_cache' = dictionary_cache
               /\ dictionary_call' =
                     DictionaryCall("is_valid_word", <<word, min_length>>, FALSE, {})
          ELSE /\ dictionary_cache' = load_dictionary_cached(dictionary_cache, file_found)
               /\ dictionary_call' =
                     DictionaryCall("is_valid_word", <<word, min_length>>,
                                    lower(word) \in dictionary_cache'.words, {})
    /\ UNCHANGED behind_dictionary

\* can_form_word(word, available_letters), which reads no dictionary.
CanFormWordCall ==
    /\ \E word \in CallWords, available \in CallLetters :
          dictionary_call' =
              DictionaryCall("can_form_word", <<word, available>>,
                             dictionary_can_form_word(word, Counter(available)), {})
    /\ UNCHANGED dictionary_cache
    /\ UNCHANGED behind_dictionary

\* Lines 140-148: the words of the dictionary the letters form.
valid_words_of(dictionary, word_letters, min_length) ==
    LET available_letters == Counter(lower(word_letters))
    IN  {word \in dictionary :
            Len(word) >= min_length /\ dictionary_can_form_word(word, available_letters)}

\* get_valid_words(letters, min_length)
GetValidWordsCall ==
    /\ \E word_letters \in CallLetters, min_length \in 1..MaxMinLength,
          file_found \in FileOutcomes(dictionary_cache) :
          /\ dictionary_cache' = load_dictionary_cached(dictionary_cache, file_found)
          /\ dictionary_call' =
                DictionaryCall("get_valid_words", <<word_letters, min_length>>, FALSE,
                               valid_words_of(dictionary_cache'.words, word_letters,
                                              min_length))
    /\ UNCHANGED behind_dictionary

\* add_custom_words(words)
AddCustomWordsCall ==
    /\ \E words \in SUBSET CustomWords, file_found \in FileOutcomes(dictionary_cache) :
          LET dictionary == load_dictionary_cached(dictionary_cache, file_found)
          IN  /\ dictionary_cache' =
                    [dictionary EXCEPT !.words = @ \cup {lower(word) : word \in words}]
              /\ dictionary_call' = DictionaryCall("add_custom_words", words, FALSE, {})
    /\ UNCHANGED behind_dictionary

\* solve_qless(letters, min_word_length, all_words): the dictionary is reached
\* through get_valid_words (line 46) only.
SolveQlessCall ==
    /\ \E word_letters \in CallLetters, min_length \in 1..MaxMinLength,
          file_found \in FileOutcomes(dictionary_cache) :
          /\ dictionary_cache' = load_dictionary_cached(dictionary_cache, file_found)
          /\ dictionary_call' =
                DictionaryCall("solve_qless", <<word_letters, min_length>>, FALSE,
                               valid_words_of(dictionary_cache'.words, word_letters,
                                              min_length))
    /\ UNCHANGED behind_dictionary

\* find_complete_solutions(possible_words, available_letters, min_length),
\* which works on the words it is given.
FindCompleteSolutionsCall ==
    /\ \E possible_words \in SUBSET DictWords :
          dictionary_call' =
              DictionaryCall("find_complete_solutions", possible_words, FALSE, {})
    /\ UNCHANGED dictionary_cache
    /\ UNCHANGED behind_dictionary

\* validate_qless_arrangement: is_valid_word is called (line 196) where a row
\* or column has a segment of min_word_length cells, whose text is then at
\* least that long.
ValidateCall ==
    /\ \E has_segment \in BOOLEAN, file_found \in FileOutcomes(dictionary_cache) :
          /\ dictionary_cache' =
                IF has_segment
                THEN load_dictionary_cached(dictionary_cache, file_found)
                ELSE dictionary_cache
          /\ dictionary_call' =
                DictionaryCall("validate_qless_arrangement", <<has_segment>>, FALSE, {})
    /\ UNCHANGED behind_dictionary

\* solve_qless_grid, which asks a Dictionary object of its own (line 107) and
\* names neither load_dictionary nor _DICTIONARY.
SolveQlessGridCall ==
    /\ \E word_letters \in CallLetters :
          dictionary_call' = DictionaryCall("solve_qless_grid", word_letters, FALSE, {})
    /\ UNCHANGED dictionary_cache
    /\ UNCHANGED behind_dictionary

NextDictionary ==
    \/ LoadDictionaryCall
    \/ IsValidWordCall
    \/ CanFormWordCall
    \/ GetValidWordsCall
    \/ AddCustomWordsCall
    \/ SolveQlessCall
    \/ FindCompleteSolutionsCall
    \/ ValidateCall
    \/ SolveQlessGridCall

SpecDictionary == InitDictionary /\ [][NextDictionary]_vars

\* C25: once the dictionary is loaded, a call of any function but
\* add_custom_words leaves its word set as it was, and add_custom_words adds
\* the words it is given, in lower case, and removes none.
C25_DictionaryReadOnly ==
    [][dictionary_cache.loaded =>
          IF dictionary_call'.function = "add_custom_words"
          THEN dictionary_cache'.words =
                  dictionary_cache.words
                      \cup {lower(word) : word \in dictionary_call'.arguments}
          ELSE dictionary_cache'.words = dictionary_cache.words]_vars

\* A word added by add_custom_words is still in the dictionary after calls of
\* the other functions, the last of them get_valid_words, which returned it.
C25_Witness ==
    /\ dictionary_call.function = "get_valid_words"
    /\ <<"t">> \in dictionary_call.returned
    /\ <<"t", "t">> \in dictionary_cache.words
    /\ DictWords \subseteq dictionary_cache.words

(***************************************************************************)
(* The search under the scheduling of the interpreter                      *)
(***************************************************************************)
\* A caller is about to call solve_qless_grid(letters, dictionary,
\* min_word_length).
InitSearch == Init /\ pc = "start"

\* The steps of solve_qless_grid and of the search it runs.
NextSearch ==
    \/ SolveQlessGrid
    \/ BaseCase
    \/ AnchorPoints
    \/ AnchorPointsRaise
    \/ SkipWord
    \/ TryWord
    \/ NextPoint
    \/ LoopsDone

SpecSearch == InitSearch /\ [][NextSearch]_vars

\* Execution is single-threaded and synchronous: the interpreter always runs
\* the next statement of the call in progress, so a step that can be taken is
\* taken.
SpecFair == SpecSearch /\ WF_vars(NextSearch)

\* The call of solve_qless_grid has ended: it returned or an exception left it.
Ended == pc \in {"done", "raised"}

\* backtrack calls itself (line 182): an activation is pushed on the caller's.
RecursiveCall == stack # <<>> /\ Len(stack') = Len(stack) + 1

\* C26: the grid search terminates: a call of solve_qless_grid ends; every
\* recursive call of backtrack gets a strictly smaller total of remaining
\* letters and a strictly larger used-word set than its caller has; and the
\* recursive calls nested under the first call of backtrack never outnumber
\* the input letters.
C26_Termination ==
    /\ (pc = "start") ~> Ended
    /\ [][RecursiveCall =>
            LET caller == stack'[Len(stack)]
                callee == stack'[Len(stack')]
            IN  /\ SumValues(callee.current_remaining_letters)
                      < SumValues(caller.current_remaining_letters)
                /\ caller.used_words_set \subseteq callee.used_words_set
                /\ caller.used_words_set # callee.used_words_set]_vars
    /\ [](stack # <<>> => Len(stack) - 1 <= Len(letters))

\* The recursion is as deep as the letters allow: under the first call of
\* backtrack as many nested calls are in progress as there are input letters.
C26_Witness ==
    /\ pc = "backtrack"
    /\ Len(letters) >= 1
    /\ Len(stack) - 1 = Len(letters)

(***************************************************************************)
(* The in-place choice of find_complete_solutions.backtrack                *)
(***************************************************************************)
\* The recorded solutions of a are still the first recorded solutions of b.
KeepsSolutions(a, b) ==
    /\ Len(b.solutions) >= Len(a.solutions)
    /\ SubSeq(b.solutions, 1, Len(a.solutions)) = a.solutions

RECURSIVE Undone(_, _, _), UndoneLoop(_, _, _, _)
\* Every choice made by the call of backtrack on st, and by the calls below
\* it, is undone when its recursive call has returned.
Undone(possible_words, original_letters, st) ==
    IsComplete(st.remaining_letters)
        \/ UndoneLoop(possible_words, original_letters, st, 1)

\* The same for the for loop from its i-th word on.
UndoneLoop(possible_words, original_letters, st, i) ==
    IF i > Len(possible_words) THEN TRUE
    ELSE LET word == possible_words[i]
         IN  IF FitsRemaining(word, st.remaining_letters)
             THEN LET taken == UseWord(st, word)
                      back == solver_backtrack(possible_words, original_letters, taken)
                      restored == UndoWord(back, word)
                  IN  /\ Undone(possible_words, original_letters, taken)
                      /\ restored.remaining_letters = st.remaining_letters
                      /\ restored.current_solution = st.current_solution
                      /\ taken.solutions = st.solutions
                      /\ KeepsSolutions(taken, back)
                      /\ restored.solutions = back.solutions
                      /\ UndoneLoop(possible_words, original_letters, restored, i + 1)
             ELSE UndoneLoop(possible_words, original_letters, st, i + 1)

\* C28: in find_complete_solutions.backtrack, when the recursive call for a
\* word has returned and the word is undone, remaining_letters holds the count
\* it held for every letter and current_solution the word sequence it held
\* just before the word was chosen, at every depth and in every iteration
\* order of the words; the solutions recorded so far stay as recorded.
C28_ChoiceUndone ==
    (pc = "solved" /\ solver_result.searched) =>
        \A possible_words \in
              ListsOf(dictionary_get_valid_words(lower(letters), min_word_length)) :
            Undone(possible_words, Counter(lower(letters)),
                   FirstCall(Counter(lower(letters))))

\* The search has returned a solution of two words and another solution:
\* choices were undone at two depths after a solution was recorded.
C28_Witness ==
    /\ pc = "solved"
    /\ solver_result.searched
    /\ Len(solver_result.returned) >= 2
    /\ \E i \in 1..Len(solver_result.returned) :
          Len(solver_result.returned[i].words) >= 2

(***************************************************************************)
(* The order of the words of a solution                                    *)
(***************************************************************************)
\* The word lists returned, one per solution, in the order returned.
ReturnedWords == [i \in 1..Len(solver_result.returned) |-> solver_result.returned[i].words]

\* The reorderings of the positions of a list of n words.
Reorderings(n) == {p \in [1..n -> 1..n] : \A i, j \in 1..n : i # j => p[i] # p[j]}

\* C29: whenever find_complete_solutions returns a sequence of words as a
\* solution, it returns every reordering of that sequence as a solution too,
\* each different sequence as an entry of its own.
C29_ClosedUnderReordering ==
    (pc = "solved" /\ solver_result.searched) =>
        \A i \in 1..Len(ReturnedWords) :
            \A p \in Reorderings(Len(ReturnedWords[i])) :
                \E j \in 1..Len(ReturnedWords) :
                    /\ ReturnedWords[j] =
                          [k \in 1..Len(ReturnedWords[i]) |-> ReturnedWords[i][p[k]]]
                    /\ (ReturnedWords[j] # ReturnedWords[i] => j # i)

\* The search has returned two different words in one order and in the other.
C29_Witness ==
    /\ pc = "solved"
    /\ solver_result.searched
    /\ \E i, j \in 1..Len(ReturnedWords) :
          /\ Len(ReturnedWords[i]) = 2
          /\ ReturnedWords[i][1] # ReturnedWords[i][2]
          /\ ReturnedWords[j] = <<ReturnedWords[i][2], ReturnedWords[i][1]>>

(***************************************************************************)
(* The two word sources                                                    *)
(***************************************************************************)
\* C30: over the same dictionary of lower-case words, for every letters string
\* and min_length >= 1, get_valid_words of grid_solver.py (permutations of the
\* letters tested for membership) and get_valid_words of dictionary.py (the
\* dictionary filtered with can_form_word) return the same set of words.
C30_WordSourcesAgree ==
    pc # "start" =>
        SeqToSet(sorted_candidate_words) =
            dictionary_get_valid_words(letters, min_word_length)

\* The grid solver has its words for letters that hold an upper-case letter
\* and hold every letter of a dictionary word, one of them too few times:
\* some words are returned, and that word is not.
C30_Witness ==
    /\ pc = "backtrack"
    /\ sorted_candidate_words # <<>>
    /\ lower(letters) # letters
    /\ \E w \in DictWords :
          /\ Len(w) >= min_word_length
          /\ \A i \in 1..Len(w) : \E k \in 1..Len(letters) : lower(letters)[k] = w[i]
          /\ w \notin SeqToSet(sorted_candidate_words)

====
